---- MODULE Spec2Model ----
(***************************************************************************)
(* Model of the results aggregation engine of mf_prior_experiments         *)
(* (src/mf_prior_experiments/configs/plotting/types.py): the Result        *)
(* record, the Trace transformations and the collections built on them.    *)
(*                                                                         *)
(* An optional Python value (x: T | None) is a sequence of length <= 1:    *)
(* None is << >> and a present value v is << v >>.                         *)
(* A Trace is the sequence of its `results`.                               *)
(* A call either returns ([err |-> "", results |-> ...]) or raises         *)
(* ([err |-> <exception>, results |-> << >>]).                             *)
(***************************************************************************)
EXTENDS Integers, Sequences, FiniteSets, TLC

\* ---------------------------------------------------------------- bounds
MaxLen == 3
MaxId == 1
MaxBracket == 1
MaxFid == 2
MaxLoss == 1
MaxPid == 1
MaxWorkers == 2
MaxSeed == 0
MaxTime == 3
MaxRankLen == 2

MaxAxis == 7
MaxAxisLen == 2
MaxFactor == 3
MaxCalls == 2
MaxFetches == 2
MaxDiskSeed == 1
MaxHeapCalls == 2
Precision == 6
FracBits == 13

\* ------------------------------------------------------- optional values
None == << >>

Some(v) == << v >>

\* ------------------------------------------------------ python built-ins
Range(s) == {s[i] : i \in DOMAIN s}

SetMin(S) == CHOOSE x \in S : \A y \in S : x <= y

\* sorted(s, key=...): stable, ascending; keys[i] is the key of s[i].  The
\* element at index i moves to position 1 + the number of elements that
\* must precede it.
sorted(s, keys) ==
    IF Len(s) <= 1 THEN s
    ELSE LET pos(i) == 1 + Cardinality({j \in DOMAIN s :
                             \/ keys[j] < keys[i]
                             \/ (keys[j] = keys[i] /\ j < i)})
         IN  [p \in DOMAIN s |-> s[CHOOSE i \in DOMAIN s : pos(i) = p]]

\* sorted() compares the keys of any two elements with `<`; a None key
\* raises TypeError as soon as there is something to compare.
SortRaises(optkeys) ==
    Len(optkeys) >= 2 /\ \E i \in DOMAIN optkeys : optkeys[i] = None

\* (mutant) no running total: the i-th element itself
accumulate_last_only(xs, i) == xs[i]

\* accumulate(xs)[i]
RECURSIVE accumulate(_, _)
accumulate(xs, i) == IF i = 1 THEN xs[1] ELSE accumulate(xs, i - 1) + xs[i]

\* all_equal(xs): True for an empty iterable
all_equal(S) == Cardinality(S) <= 1

Return(results) == [err |-> "", results |-> results]

\* ----------------------------------------------------------- Python floats
\* Where an axis is rescaled its numbers are binary floating-point numbers
\* with a significand of Precision bits, held as the integer count of
\* 2^-FracBits they amount to: One is 1.0, and an int n promoted to float is
\* n * One.  Every operation rounds its exact result to the nearest such
\* number, ties to the even significand.
RECURSIVE Pow2(_)
Pow2(n) == IF n = 0 THEN 1 ELSE 2 * Pow2(n - 1)

One == Pow2(FracBits)

Abs(x) == IF x < 0 THEN 0 - x ELSE x

\* the number of times 2 divides n > 0, and what is left of n
RECURSIVE TwoExp(_)
TwoExp(n) == IF n % 2 = 1 THEN 0 ELSE 1 + TwoExp(n \div 2)

OddPart(n) == n \div Pow2(TwoExp(n))

\* the gap between neighbouring floats around n/d >= 0: the least power of
\* two s >= step with n/d < s * 2^Precision
RECURSIVE Spacing(_, _, _)
Spacing(n, d, step) ==
    IF n < d * step * Pow2(Precision) THEN step ELSE Spacing(n, d, 2 * step)

\* k + r/q, 0 <= r < q, rounded to the nearest integer, ties to even
HalfEven(k, r, q) ==
    IF 2 * r < q THEN k
    ELSE IF 2 * r > q THEN k + 1
    ELSE IF k % 2 = 0 THEN k ELSE k + 1

\* n/d >= 0 rounded to the nearest multiple of s, ties to even
RoundTo(n, d, s) == s * HalfEven(n \div (d * s), n % (d * s), d * s)

\* n/d >= 0 rounded to the nearest float, ties to even
float_round(n, d) == RoundTo(n, d, Spacing(n, d, 1))

\* (m / d) * 2^e >= 0 rounded to the nearest float
Scaled(m, d, e) ==
    IF e >= 0 THEN float_round(m * Pow2(e), d) ELSE float_round(m, d * Pow2(0 - e))

Signed(positive, magnitude) == IF positive THEN magnitude ELSE 0 - magnitude

\* (mutant) the product is cut to a whole number, as int(a * b) would
float_mul_to_int(a, b) ==
    IF a = 0 \/ b = 0 THEN 0
    ELSE LET e == TwoExp(Abs(a)) + TwoExp(Abs(b)) - FracBits
             m == OddPart(Abs(a)) * OddPart(Abs(b))
             exact == IF e >= 0 THEN m * Pow2(e) ELSE m \div Pow2(0 - e)
             mag == (exact \div One) * One
         IN  IF (a < 0) = (b < 0) THEN mag ELSE 0 - mag

\* a * b
float_mul(a, b) ==
    IF a = 0 \/ b = 0 THEN 0
    ELSE Signed((a < 0) = (b < 0),
                Scaled(OddPart(Abs(a)) * OddPart(Abs(b)), 1,
                       TwoExp(Abs(a)) + TwoExp(Abs(b)) - FracBits))

\* a / b, b # 0
float_truediv(a, b) ==
    IF a = 0 THEN 0
    ELSE Signed((a < 0) = (b < 0),
                Scaled(OddPart(Abs(a)), OddPart(Abs(b)),
                       TwoExp(Abs(a)) - TwoExp(Abs(b)) + FracBits))

Raise(e) == [err |-> e, results |-> << >>]

\* ----------------------------------------------------------------- Result
\* (mutant) the cost is reduced by the lower record's fidelity
continue_from_cost_by_fidelity(self, other) ==
    [self EXCEPT !.fidelity = self.fidelity - other.fidelity,
                 !.cost = self.cost - other.fidelity,
                 !.continued_from = Some(other)]

\* Result.continue_from: mutate(fidelity=..., cost=..., continued_from=other)
continue_from(self, other) ==
    [self EXCEPT !.fidelity = self.fidelity - other.fidelity,
                 !.cost = self.cost - other.cost,
                 !.continued_from = Some(other)]

\* -------------------------------------------------- Trace.with_continuations
bracket(res) == IF res.bracket = None THEN 0 ELSE res.bracket[1]

trace_results(results) == sorted(results, [i \in DOMAIN results |-> results[i].id])

\* results[config_id] of the groupby dict: the id's records, by bracket
config_results(results, config_id) ==
    LET group == SelectSeq(trace_results(results), LAMBDA r : r.id = config_id)
    IN  sorted(group, [i \in DOMAIN group |-> bracket(group[i])])

ConfigIds(results) == {r.id : r \in Range(results)}

\* (mutant) the pairs of a group stop one short of its last record
RECURSIVE continuations_one_short(_, _)
continuations_one_short(results, ids) ==
    IF ids = {} THEN << >>
    ELSE LET config_id == SetMin(ids)
             g == config_results(results, config_id)
         IN  << g[1] >>
             \o [k \in 1..(Len(g) - 2) |-> continue_from(g[k + 1], g[k])]
             \o continuations_one_short(results, ids \ {config_id})

\* the loop over results.values(): the dict is in ascending id order
RECURSIVE continuations(_, _)
continuations(results, ids) ==
    IF ids = {} THEN << >>
    ELSE LET config_id == SetMin(ids)
             g == config_results(results, config_id)
         IN  << g[1] >>
             \o [k \in 1..(Len(g) - 1) |-> continue_from(g[k + 1], g[k])]
             \o continuations(results, ids \ {config_id})

\* the assertion of continue_from fails for some `higher_bracket`
ContinueAsserts(results) ==
    \E config_id \in ConfigIds(results) :
        LET g == config_results(results, config_id)
        IN  \E k \in 2..Len(g) : g[k].continued_from # None

with_continuations(results) ==
    IF ContinueAsserts(results) THEN Raise("AssertionError: continued_from")
    ELSE LET conts == continuations(results, ConfigIds(results))
         IN  IF Len(trace_results(results)) # Len(conts)
             THEN Raise("AssertionError: len")
             ELSE Return(sorted(conts, [i \in DOMAIN conts |-> conts[i].end_time]))

\* --------------------------------------------- Trace.with_cumulative_fidelity
\* (mutant) the records are accumulated latest first
single_worker_cumulated_latest_first(results) ==
    LET rs == sorted(results, [i \in DOMAIN results |-> 0 - results[i].end_time])
        fids == [i \in DOMAIN rs |-> rs[i].fidelity]
    IN  [i \in DOMAIN rs |->
            [rs[i] EXCEPT !.cumulated_fidelity = Some(accumulate(fids, i))]]

\* the single-worker branch: sort by end_time, running sum of fidelity
single_worker_cumulated(results) ==
    LET rs == sorted(results, [i \in DOMAIN results |-> results[i].end_time])
        fids == [i \in DOMAIN rs |-> rs[i].fidelity]
    IN  [i \in DOMAIN rs |->
            [rs[i] EXCEPT !.cumulated_fidelity = Some(accumulate(fids, i))]]

\* results_per_process[pid]: groupby over the records sorted by process_id
results_per_process(results, pid) ==
    SelectSeq(sorted(results, [i \in DOMAIN results |->
                        IF results[i].process_id = None THEN 0
                        ELSE results[i].process_id[1]]),
              LAMBDA r : r.process_id = Some(pid))

ProcessIds(results) == {r.process_id[1] : r \in Range(results)}

\* cumulated_results.extend(trace.results) for each process, in pid order
RECURSIVE cumulated_per_process(_, _)
cumulated_per_process(results, pids) ==
    IF pids = {} THEN << >>
    ELSE LET pid == SetMin(pids)
         IN  single_worker_cumulated(results_per_process(results, pid))
             \o cumulated_per_process(results, pids \ {pid})

\* (mutant) the first record of the group, whatever its loss
min_by_loss_first(group) == group[1]

\* min(results, key=loss): the first record with the least loss
min_by_loss(group) ==
    LET i == CHOOSE i \in DOMAIN group :
                 /\ \A j \in DOMAIN group : group[i].loss <= group[j].loss
                 /\ \A j \in 1..(i - 1) : group[j].loss > group[i].loss
    IN  group[i]

\* one record per group of equal cumulated_fidelity, groups ascending
RECURSIVE best_per_cumulated(_, _)
best_per_cumulated(cumulated, values) ==
    IF values = {} THEN << >>
    ELSE LET v == SetMin(values)
         IN  << min_by_loss(SelectSeq(cumulated,
                    LAMBDA r : r.cumulated_fidelity = Some(v))) >>
             \o best_per_cumulated(cumulated, values \ {v})

multi_worker_cumulated(results) ==
    LET merged == cumulated_per_process(results, ProcessIds(results))
        by_cum == sorted(merged, [i \in DOMAIN merged |->
                                     merged[i].cumulated_fidelity[1]])
        best == best_per_cumulated(by_cum,
                    {r.cumulated_fidelity[1] : r \in Range(by_cum)})
    IN  sorted(best, [i \in DOMAIN best |-> best[i].cumulated_fidelity[1]])

\* the test that selects the single-worker branch
is_single_worker(n_workers) == n_workers = None \/ n_workers = Some(1)

with_cumulative_fidelity(results, n_workers, yaxis) ==
    IF is_single_worker(n_workers)
    THEN IF ~all_equal({r.process_id : r \in Range(results)})
         THEN Raise("AssertionError: process_id")
         ELSE Return(single_worker_cumulated(results))
    ELSE IF \E r \in Range(results) : r.process_id = None
         THEN Raise("AssertionError: process_id")
         ELSE IF yaxis # "loss"
              THEN Raise("AssertionError: not supported")
              ELSE Return(multi_worker_cumulated(results))

\* ----------------------------------------------------- Trace.incumbent_trace
\* getattr(r, xaxis) as an optional value
Getattr(r, xaxis) ==
    IF xaxis = "cumulated_fidelity" THEN r.cumulated_fidelity ELSE Some(r[xaxis])

\* (mutant) a result that ties with the incumbent replaces it
RECURSIVE incumbents_on_ties(_, _)
incumbents_on_ties(rs, n) ==
    IF n = 1 THEN << rs[1] >>
    ELSE LET prev == incumbents_on_ties(rs, n - 1)
             incumbent == prev[Len(prev)]
         IN  IF rs[n].loss <= incumbent.loss THEN Append(prev, rs[n]) ELSE prev

\* (mutant) the comparison is turned round: a higher value replaces the incumbent
RECURSIVE incumbents_maximising(_, _)
incumbents_maximising(rs, n) ==
    IF n = 1 THEN << rs[1] >>
    ELSE LET prev == incumbents_maximising(rs, n - 1)
             incumbent == prev[Len(prev)]
         IN  IF rs[n].loss > incumbent.loss THEN Append(prev, rs[n]) ELSE prev

\* the incumbents list after the walk has visited rs[1..n]
RECURSIVE incumbents(_, _)
incumbents(rs, n) ==
    IF n = 1 THEN << rs[1] >>
    ELSE LET prev == incumbents(rs, n - 1)
             incumbent == prev[Len(prev)]
         IN  IF rs[n].loss < incumbent.loss THEN Append(prev, rs[n]) ELSE prev

incumbent_trace(results, xaxis, yaxis) ==
    IF yaxis # "loss" THEN Raise("NotImplementedError")
    ELSE IF SortRaises([i \in DOMAIN results |-> Getattr(results[i], xaxis)])
    THEN Raise("TypeError")
    ELSE IF results = << >> THEN Raise("IndexError")
    ELSE LET rs == sorted(results, [i \in DOMAIN results |->
                                      Getattr(results[i], xaxis)[1]])
         IN  Return(incumbents(rs, Len(rs)))

\* ------------------------------------------------------------ Trace.in_range
\* (mutant) the upper bound is exclusive
in_range_open_above(results, bounds, xaxis) ==
    IF \E r \in Range(results) : Getattr(r, xaxis) = None
    THEN Raise("TypeError")
    ELSE LET kept == SelectSeq(results, LAMBDA r :
                        /\ bounds[1] <= Getattr(r, xaxis)[1]
                        /\ Getattr(r, xaxis)[1] < bounds[2])
         IN  Return(sorted(kept, [i \in DOMAIN kept |-> Getattr(kept[i], xaxis)[1]]))

in_range(results, bounds, xaxis) ==
    IF \E r \in Range(results) : Getattr(r, xaxis) = None
    THEN Raise("TypeError")
    ELSE LET kept == SelectSeq(results, LAMBDA r :
                        /\ bounds[1] <= Getattr(r, xaxis)[1]
                        /\ Getattr(r, xaxis)[1] <= bounds[2])
         IN  Return(sorted(kept, [i \in DOMAIN kept |-> Getattr(kept[i], xaxis)[1]]))

\* ------------------------------------------------------- Trace.rescale_xaxis
\* setattr(copied, xaxis, value) on the copy replace(result) made
Setattr(r, xaxis, value) ==
    IF xaxis = "cumulated_fidelity" THEN [r EXCEPT !.cumulated_fidelity = Some(value)]
    ELSE [r EXCEPT ![xaxis] = value]

\* (mutant) the rescaled records are left in the order of the input
rescale_xaxis_unsorted(results, c, xaxis) ==
    IF \E r \in Range(results) : Getattr(r, xaxis) = None
    THEN Raise("TypeError")
    ELSE Return([i \in DOMAIN results |->
                    Setattr(results[i], xaxis,
                            float_mul(Getattr(results[i], xaxis)[1], c))])

\* sorted(results, key=lambda r: getattr(r, xaxis))
sorted_by(results, xaxis) ==
    sorted(results, [i \in DOMAIN results |-> Getattr(results[i], xaxis)[1]])

\* the axis values are floats (or ints, promoted by the product)
rescale_xaxis(results, c, xaxis) ==
    IF \E r \in Range(results) : Getattr(r, xaxis) = None
    THEN Raise("TypeError")
    ELSE Return(sorted_by([i \in DOMAIN results |->
                              Setattr(results[i], xaxis,
                                      float_mul(Getattr(results[i], xaxis)[1], c))],
                          xaxis))

\* ------------------------------------------------------------- collections
\* A dict is a function of its keys.  AlgorithmResults is seed -> Trace,
\* BenchmarkResults is algorithm -> AlgorithmResults, and ExperimentResults
\* is the record of its fields, results being benchmark -> BenchmarkResults.
\* A method of a collection returns [err |-> "", value |-> << v >>] or
\* raises: [err |-> e, value |-> None].
Value(v) == [err |-> "", value |-> Some(v)]

Fail(e) == [err |-> e, value |-> None]

\* the AlgorithmResults of the traces out[seed] returned by the calls on the
\* seeds in turn; the first call that raised ends it
traces_of(out) ==
    LET failed == {s \in DOMAIN out : out[s].err # ""}
    IN  IF failed # {} THEN Fail(out[SetMin(failed)].err)
        ELSE Value([s \in DOMAIN out |-> out[s].results])

\* the mapping of the children out[key] returned by the calls on the
\* children; a call that raised ends it
children_of(out) ==
    LET failed == {k \in DOMAIN out : out[k].err # ""}
    IN  IF failed # {} THEN Fail(out[CHOOSE k \in failed : TRUE].err)
        ELSE Value([k \in DOMAIN out |-> out[k].value[1]])

\* replace(self, results=...)
replaced(self, results) ==
    IF results.err # "" THEN results
    ELSE Value([self EXCEPT !.results = results.value[1]])

\* the Trace method the standalone functions _with_continuations,
\* _with_cumulative_fidelity, _incumbent_trace, _rescale_xaxis and _in_range
\* end in, by its name
trace_transform(op, args, results) ==
    CASE op = "with_continuations" -> with_continuations(results)
      [] op = "with_cumulative_fidelity" ->
             with_cumulative_fidelity(results, args.n_workers, "loss")
      [] op = "incumbent_trace" -> incumbent_trace(results, args.xaxis, args.yaxis)
      [] op = "rescale_xaxis" -> rescale_xaxis(results, args.c, args.xaxis)
      [] op = "in_range" -> in_range(results, args.bounds, args.xaxis)

\* AlgorithmResults.<op>: the traces transformed seed by seed, the first
\* failure raised
algorithm_transform(op, args, traces) ==
    traces_of([s \in DOMAIN traces |-> trace_transform(op, args, traces[s])])

\* BenchmarkResults.<op> with pool = None: the children transformed in turn
\* and zipped back onto the keys; a failure of a child is raised
benchmark_transform(op, args, results) ==
    children_of([a \in DOMAIN results |-> algorithm_transform(op, args, results[a])])

\* (mutant) every benchmark is rescaled by the max fidelity of the first
experiment_factor_of_first(self, name) ==
    float_truediv(One, self.benchmark_configs[self.benchmarks[1]].max_fidelity * One)

\* the factor ExperimentResults.rescale_xaxis hands to benchmark `name`:
\* 1 / max_fidelities[name]
experiment_factor(self, name) ==
    float_truediv(One, self.benchmark_configs[name].max_fidelity * One)

\* ExperimentResults.<op>: every BenchmarkResults transformed, rescale_xaxis
\* with the factor of its own benchmark; returns the replaced experiment
experiment_transform(op, args, self) ==
    replaced(self,
             children_of([b \in DOMAIN self.results |->
                             benchmark_transform(
                                 op,
                                 IF op = "rescale_xaxis"
                                 THEN [args EXCEPT !.c = experiment_factor(self, b)]
                                 ELSE args,
                                 self.results[b])]))

\* ------------------------------------------------- BenchmarkResults.ranks
SetMax(S) == CHOOSE x \in S : \A y \in S : y <= x

\* Trace.series(index, values): the values column keyed by the index column
series(results, index, values) ==
    [x \in {Getattr(r, index)[1] : r \in Range(results)} |->
        (CHOOSE r \in Range(results) : Getattr(r, index)[1] = x)[values]]

\* Index.sort_values(): the values of S in ascending order
sort_index(S) ==
    [i \in 1..Cardinality(S) |->
        CHOOSE x \in S : Cardinality({y \in S : y < x}) = i - 1]

\* the algorithms in the order the results dictionary holds them
AlgorithmOrder == << "A", "B" >>

\* the index values of S not yet in the index, appended in ascending order
appended(index, S) == index \o sort_index(S \ Range(index))

\* the union of the first n columns' indexes in order of first appearance
RECURSIVE union_indexes(_, _, _)
union_indexes(columns, order, n) ==
    IF n = 0 THEN << >>
    ELSE appended(union_indexes(columns, order, n - 1), DOMAIN columns[order[n]])

\* the row order pd.concat(series, axis=1) gives the table: the columns'
\* common index if they share one; otherwise the union of their indexes,
\* which pandas 1 sorts and pandas 2 (sort=False) leaves in order of first
\* appearance
concat_index(columns, sorts) ==
    IF sorts \/ \A a, b \in DOMAIN columns : DOMAIN columns[a] = DOMAIN columns[b]
    THEN sort_index(UNION {DOMAIN columns[a] : a \in DOMAIN columns})
    ELSE LET order == SelectSeq(AlgorithmOrder, LAMBDA a : a \in DOMAIN columns)
         IN  union_indexes(columns, order, Len(order))

\* pd.concat(series, axis=1), then the rows of `indices` added as missing:
\* one row per index value of any column, a cell missing (None) where the
\* column has no such index
concat(columns, indices) ==
    [x \in (UNION {DOMAIN columns[a] : a \in DOMAIN columns}) \cup indices |->
        [a \in DOMAIN columns |->
            IF x \in DOMAIN columns[a] THEN Some(columns[a][x]) ELSE None]]

\* the last known cell of column a in the rows index[1..i], if any
last_valid(df, index, a, i) ==
    LET known == {j \in 1..i : df[index[j]][a] # None}
    IN  IF known = {} THEN None ELSE df[index[SetMax(known)]][a]

\* df.fillna(method="ffill", axis=0), the rows of the table in the order
\* index: a missing cell takes the last known cell above it
ffill(df, index) ==
    [x \in DOMAIN df |->
        [a \in DOMAIN df[x] |->
            last_valid(df, index, a, CHOOSE i \in DOMAIN index : index[i] = x)]]

\* the rows of the table BenchmarkResults.ranks fills: in ascending order
\* once indices is given (df.sort_index), else as pd.concat left them
row_order(columns, indices, sorts) ==
    IF indices = None THEN concat_index(columns, sorts)
    ELSE sort_index((UNION {DOMAIN columns[a] : a \in DOMAIN columns}) \cup indices[1])

\* (mutant) method="min": tied cells all take the lowest of their ranks
rank_min(df) ==
    [x \in DOMAIN df |->
        [a \in DOMAIN df[x] |->
            IF df[x][a] = None THEN None
            ELSE Some(2 * Cardinality({b \in DOMAIN df[x] :
                                          df[x][b] # None /\ df[x][b][1] < df[x][a][1]}) + 2)]]

\* df.rank(method="average", axis=1), as twice the rank: a cell shares the
\* mean of the ranks its ties occupy, a missing cell stays missing
rank(df) ==
    [x \in DOMAIN df |->
        [a \in DOMAIN df[x] |->
            IF df[x][a] = None THEN None
            ELSE LET present == {b \in DOMAIN df[x] : df[x][b] # None}
                     less == {b \in present : df[x][b][1] < df[x][a][1]}
                     ties == {b \in present : df[x][b][1] = df[x][a][1]}
                 IN  Some(2 * Cardinality(less) + Cardinality(ties) + 1)]]

\* the table of the columns: concatenated, filled forward, ranked
rank_table(columns, indices, sorts) ==
    rank(ffill(concat(columns, IF indices = None THEN {} ELSE indices[1]),
               row_order(columns, indices, sorts)))

\* (mutant) the requested metric is handed on
ranks_incumbent_yaxis_requested(yaxis) == yaxis

\* the metric ranks() hands to incumbent_traces
ranks_incumbent_yaxis(yaxis) == "loss"

\* BenchmarkResults.ranks(xaxis, yaxis, seed, indices), indices None or
\* Some(set); results maps an algorithm to its seed -> Trace mapping and
\* sorts tells whether pd.concat sorts an index the columns do not share
ranks(results, xaxis, yaxis, seed, indices, sorts) ==
    IF \E a \in DOMAIN results : seed \notin DOMAIN results[a]
    THEN [err |-> "KeyError", table |-> None]
    ELSE LET incumbent_results ==
                 [a \in DOMAIN results |->
                     incumbent_trace(results[a][seed], xaxis,
                                     ranks_incumbent_yaxis(yaxis))]
             failed == {a \in DOMAIN results : incumbent_results[a].err # ""}
         IN  IF failed # {}
             THEN [err |-> incumbent_results[CHOOSE a \in failed : TRUE].err,
                   table |-> None]
             ELSE LET columns == [a \in DOMAIN results |->
                                     series(incumbent_results[a].results, xaxis, yaxis)]
                  IN  [err |-> "",
                       table |-> Some(rank_table(columns, indices, sorts))]

\* ------------------------------------------------------------------ loading
\* a raw record as the loaders build it
RawResult(id, br, loss, fidelity, end_time, pid) ==
    [id |-> id, bracket |-> br, loss |-> loss, cost |-> 2 * fidelity + loss,
     val_score |-> MaxLoss - loss, fidelity |-> fidelity, end_time |-> end_time,
     cumulated_fidelity |-> None, continued_from |-> None, process_id |-> pid]

\* A seed directory on disk is [kind, configs, ids, lines]: kind says which
\* sentinel subdirectory it has ("neps", "hpbandster"), that it has neither
\* ("nosentinel") or that it does not exist ("missing"); configs are the
\* config directories of Format A, each [name, loss, fidelity, end_time,
\* process_id] with name the numbers of "config_<id>[_<bracket>]"; ids and
\* lines are the two logs of Format B, a line being [id, budget, finished, loss].

\* Result.from_dir
from_dir(config_dir) ==
    RawResult(config_dir.name[1],
              IF Len(config_dir.name) = 2 THEN Some(config_dir.name[2]) ELSE None,
              config_dir.loss, config_dir.fidelity, config_dir.end_time,
              config_dir.process_id)

\* (mutant) the results are left in the order of the directory listing
load_neps_as_listed(unit) ==
    LET results == [i \in DOMAIN unit.configs |-> from_dir(unit.configs[i])]
    IN  IF Len(results) = 0 THEN Raise("ValueError: no results")
        ELSE Return(results)

\* Trace.load_neps
load_neps(unit) ==
    LET results == [i \in DOMAIN unit.configs |-> from_dir(unit.configs[i])]
    IN  IF Len(results) = 0 THEN Raise("ValueError: no results")
        ELSE Return(sorted(results, [i \in DOMAIN results |-> results[i].end_time]))

\* Trace.load_hpbandster: ids renumbered in order of first appearance in the
\* config log, the bracket the rank of the budget among the budgets seen
load_hpbandster(unit) ==
    IF \E l \in Range(unit.lines) : l.id \notin Range(unit.ids)
    THEN Raise("KeyError")
    ELSE LET new_id(id) ==
                 Cardinality({unit.ids[j] : j \in
                     1..((CHOOSE i \in DOMAIN unit.ids :
                            unit.ids[i] = id /\ \A k \in 1..(i - 1) : unit.ids[k] # id) - 1)})
             unique_fidelities == {l.budget : l \in Range(unit.lines)}
             fid_to_bracket(f) == Cardinality({g \in unique_fidelities : g < f})
             parsed_results ==
                 [i \in DOMAIN unit.lines |->
                     RawResult(new_id(unit.lines[i].id),
                               Some(fid_to_bracket(unit.lines[i].budget)),
                               unit.lines[i].loss, unit.lines[i].budget,
                               unit.lines[i].finished, None)]
         IN  Return(sorted(parsed_results,
                           [i \in DOMAIN parsed_results |-> parsed_results[i].end_time]))

\* Trace.load
trace_load(unit) ==
    CASE unit.kind = "missing" -> Raise("FileNotFoundError")
      [] unit.kind = "neps" -> load_neps(unit)
      [] unit.kind = "hpbandster" -> load_hpbandster(unit)
      [] OTHER -> Raise("ValueError: neither root directory")

\* The results directory is [units, configs, cache]: units maps
\* << benchmark, algorithm, seed >> to the seed directory, configs a benchmark
\* to its configuration [max_fidelity] if the yaml file is there, cache is the
\* pickled ExperimentResults if the cache file is there.

\* the seeds ExperimentResults.load reads off the random_search directory of
\* the first benchmark (random_search_prior is not modelled)
seed_dirs(benchmarks, disk) ==
    {s \in 0..MaxDiskSeed : disk.units[<< benchmarks[1], "random_search", s >>].kind # "missing"}

\* (mutant) a unit that fails to load is left out of the hierarchy
experiment_load_skipping_failures(name, benchmarks, algorithms, seeds, disk) ==
    LET traces == [b \in Range(benchmarks) |-> [a \in Range(algorithms) |->
                      [k \in 0..(Len(seeds) - 1) |->
                          trace_load(disk.units[<< b, a, seeds[k + 1] >>])]]]
    IN  Value([name |-> name,
               algorithms |-> algorithms,
               benchmarks |-> benchmarks,
               benchmark_configs |->
                   [b \in {b \in Range(benchmarks) : disk.configs[b] # None} |->
                       disk.configs[b][1]],
               results |->
                   [b \in Range(benchmarks) |-> [a \in Range(algorithms) |->
                       [k \in {k \in 0..(Len(seeds) - 1) : traces[b][a][k].err = ""} |->
                           traces[b][a][k].results]]]])

\* ExperimentResults.load once the seeds are listed: every unit loaded, the
\* traces of an algorithm keyed by their position in the seeds list, then the
\* benchmark configurations read; any failure is raised
experiment_load(name, benchmarks, algorithms, seeds, disk) ==
    LET traces == [b \in Range(benchmarks) |-> [a \in Range(algorithms) |->
                      [k \in 0..(Len(seeds) - 1) |->
                          trace_load(disk.units[<< b, a, seeds[k + 1] >>])]]]
        failed == {u \in Range(benchmarks) \X Range(algorithms) \X (0..(Len(seeds) - 1)) :
                      traces[u[1]][u[2]][u[3]].err # ""}
    IN  IF failed # {}
        THEN LET u == CHOOSE u \in failed : TRUE
             IN  Fail(traces[u[1]][u[2]][u[3]].err)
        ELSE IF \E b \in Range(benchmarks) : disk.configs[b] = None
        THEN Fail("ValueError: benchmark path")
        ELSE Value([name |-> name,
                    algorithms |-> algorithms,
                    benchmarks |-> benchmarks,
                    benchmark_configs |->
                        [b \in Range(benchmarks) |-> disk.configs[b][1]],
                    results |->
                        [b \in Range(benchmarks) |-> [a \in Range(algorithms) |->
                            [k \in 0..(Len(seeds) - 1) |-> traces[b][a][k].results]]]])

\* ============================================================ state machine
VARIABLES
    input,   \* the results of the Trace the last method was called on
    call,    \* the last call: method and arguments
    ret,     \* the results of the Trace it returned, None if it raised
    err,     \* the exception it raised, "" if it returned
    bench,   \* the BenchmarkResults held: algorithm -> seed -> results, or None
    table,   \* the rank table the last ranks() returned, or None
    trail,   \* where kept: the calls made so far, each with its input
    exp,     \* the ExperimentResults held, or None
    disk,    \* the results directory of the experiment group
    fetch,   \* the fetch_results call in progress: arguments and position
    mem,     \* where objects are told apart: the objects made so far, by reference
    pool     \* the worker pool: the call dispatched and its tasks

vars == << input, call, ret, err, bench, table, trail, exp, disk, fetch, mem, pool >>

Brackets == {None} \cup {Some(b) : b \in 0..MaxBracket}

ProcessIdArgs == {None} \cup {Some(p) : p \in 0..MaxPid}

\* a trace of a multi-fidelity optimiser: configurations re-evaluated at
\* several brackets, the loss falling as the fidelity grows, no process ids;
\* sorted by end_time as Trace.load leaves it
BracketTrace(c) ==
    [i \in DOMAIN c |->
        RawResult(c[i][1], c[i][2], MaxFid - c[i][3], c[i][3], i, None)]

\* a trace of a parallel run: every configuration evaluated once, by some process
WorkerTrace(c) ==
    [i \in DOMAIN c |-> RawResult(i, None, c[i][1], c[i][2], i, c[i][3])]

XAxes == {"end_time", "cumulated_fidelity"}

YAxes == {"loss", "val_score"}

NWorkersArgs == {None} \cup {Some(n) : n \in 0..MaxWorkers}

BoundsArgs == {<< low, low + 1 >> : low \in 1..(MaxLen - 1)}

NoArgs ==
    [n_workers |-> None, xaxis |-> "", yaxis |-> "", bounds |-> << 0, 0 >>,
     seed |-> 0, indices |-> None, c |-> 0]

\* no fetch_results call made
Idle == [pc |-> "idle", calls |-> 0]

Algorithms == {"A", "B"}

\* a trace as the pipeline hands it to ranks(): one evaluation per
\* configuration at the end times T, cumulated fidelity set; c gives each its
\* loss and validation score
RankTrace(T, c) ==
    single_worker_cumulated(
        sorted([i \in 1..Cardinality(T) |->
                   LET t == CHOOSE t \in T : Cardinality({u \in T : u < t}) = i - 1
                   IN  [RawResult(i, None, c[t][1], 1, t, None)
                           EXCEPT !.val_score = c[t][2]]],
               [i \in 1..Cardinality(T) |->
                   CHOOSE t \in T : Cardinality({u \in T : u < t}) = i - 1]))

RankTraces ==
    UNION {{RankTrace(T, c) : c \in [T -> (0..MaxLoss) \X (0..MaxLoss)]} :
           T \in {U \in SUBSET (1..MaxTime) : Cardinality(U) <= MaxRankLen}}

IndicesArgs == {None, Some({}), Some({0, 2})}

Call(op, args) == [op |-> op] @@ args

\* a Trace has been loaded
TraceInit ==
    /\ input = << >>
    /\ call = Call("load", NoArgs)
    /\ \E n \in 0..MaxLen :
          \/ \E c \in [1..n -> (0..MaxId) \X Brackets \X (1..MaxFid)] :
                ret = Some(BracketTrace(c))
          \/ \E c \in [1..n -> (0..MaxLoss) \X (1..MaxFid) \X ProcessIdArgs] :
                ret = Some(WorkerTrace(c))
    /\ err = ""
    /\ bench = None
    /\ table = None
    /\ trail = << >>
    /\ exp = None
    /\ disk = None
    /\ fetch = Idle
    /\ mem = None
    /\ pool = None

\* a BenchmarkResults has been loaded and taken through the pipeline
BenchInit ==
    /\ input = << >>
    /\ call = Call("load", NoArgs)
    /\ ret = None
    /\ err = ""
    /\ bench \in {Some(b) : b \in [Algorithms -> [0..MaxSeed -> RankTraces]]}
    /\ table = None
    /\ trail = << >>
    /\ exp = None
    /\ disk = None
    /\ fetch = Idle
    /\ mem = None
    /\ pool = None

Init == TraceInit \/ BenchInit

\* the effect of a call whose result is r on the Trace held in ret
Apply(c, r) ==
    /\ input' = ret[1]
    /\ call' = c
    /\ ret' = IF r.err = "" THEN Some(r.results) ELSE None
    /\ err' = r.err
    /\ UNCHANGED << bench, table, trail, exp, disk, fetch, mem, pool >>

WithContinuations ==
    /\ ret # None
    /\ Apply(Call("with_continuations", NoArgs), with_continuations(ret[1]))

WithCumulativeFidelity ==
    /\ ret # None
    /\ \E n \in NWorkersArgs, y \in YAxes :
          Apply(Call("with_cumulative_fidelity",
                     [NoArgs EXCEPT !.n_workers = n, !.yaxis = y]),
                with_cumulative_fidelity(ret[1], n, y))

IncumbentTrace ==
    /\ ret # None
    /\ \E x \in XAxes, y \in YAxes :
          Apply(Call("incumbent_trace", [NoArgs EXCEPT !.xaxis = x, !.yaxis = y]),
                incumbent_trace(ret[1], x, y))

InRange ==
    /\ ret # None
    /\ \E b \in BoundsArgs, x \in XAxes :
          Apply(Call("in_range", [NoArgs EXCEPT !.bounds = b, !.xaxis = x]),
                in_range(ret[1], b, x))

\* ranks() reads the collection and changes nothing: one call per behaviour
Ranks ==
    /\ bench # None
    /\ call.op = "load"
    /\ \E x \in XAxes, y \in YAxes, seed \in 0..(MaxSeed + 1), indices \in IndicesArgs,
          sorts \in BOOLEAN :
          LET r == ranks(bench[1], x, y, seed, indices, sorts)
          IN  /\ call' = Call("ranks", [NoArgs EXCEPT !.xaxis = x, !.yaxis = y,
                                                     !.seed = seed, !.indices = indices])
              /\ err' = r.err
              /\ table' = r.table
    /\ UNCHANGED << input, ret, bench, trail, exp, disk, fetch, mem, pool >>

Next ==
    \/ WithContinuations
    \/ WithCumulativeFidelity
    \/ IncumbentTrace
    \/ InRange
    \/ Ranks

Spec == Init /\ [][Next]_vars

\* ------------------------------------------------------ rescaling a Trace
\* a trace whose axes hold floats: record i ends at time i and has the
\* cumulated fidelity c[i], in no particular order (as the multi-worker
\* deduplication or negative stitched deltas leave it), or none at all
AxisTrace(c, cumulated) ==
    [i \in DOMAIN c |->
        [RawResult(i, None, 0, 1, i * One, None)
            EXCEPT !.cumulated_fidelity =
                      IF cumulated THEN Some(c[i] * One) ELSE None]]

\* the factors tried: 1/m as 1 / max_fidelity gives it, m, their negatives, 0
Factors ==
    LET positive == {float_truediv(One, m * One) : m \in 1..MaxFactor}
                        \cup {m * One : m \in 1..MaxFactor}
    IN  positive \cup {0 - f : f \in positive} \cup {0}

RescaleInit ==
    /\ input = << >>
    /\ call = Call("load", NoArgs)
    /\ \E n \in 0..MaxAxisLen : \E c \in [1..n -> 1..MaxAxis], cumulated \in BOOLEAN :
          ret = Some(AxisTrace(c, cumulated))
    /\ err = ""
    /\ bench = None
    /\ table = None
    /\ trail = << >>
    /\ exp = None
    /\ disk = None
    /\ fetch = Idle
    /\ mem = None
    /\ pool = None

\* rescale_xaxis called on the Trace the last call returned
RescaleXAxis ==
    /\ ret # None
    /\ Len(trail) < MaxCalls
    /\ \E x \in XAxes :
       \E c \in Factors \cup (IF call.op = "rescale_xaxis" /\ call.c # 0
                               THEN {float_truediv(One, call.c)} ELSE {}) :
          LET made == Call("rescale_xaxis", [NoArgs EXCEPT !.xaxis = x, !.c = c])
              r == rescale_xaxis(ret[1], c, x)
          IN  /\ input' = ret[1]
              /\ call' = made
              /\ ret' = IF r.err = "" THEN Some(r.results) ELSE None
              /\ err' = r.err
              /\ trail' = Append(trail, [call |-> made, input |-> ret[1]])
    /\ UNCHANGED << bench, table, exp, disk, fetch, mem, pool >>

\* an experiment of two benchmarks as the pipeline hands it to
\* rescale_xaxis: per benchmark a max fidelity and, for every algorithm and
\* seed, the trace of one or two evaluations at fidelity levels of it
MaxFidelities == {4, 100}

FidelityLevels(max_fidelity) == {max_fidelity \div 4, max_fidelity \div 2, max_fidelity}

ExperimentBenchmarks == << "b1", "b2" >>

ExperimentAlgorithms == << "random_search" >>

ExperimentInit ==
    /\ input = << >>
    /\ call = Call("load", NoArgs)
    /\ ret = None
    /\ err = ""
    /\ bench = None
    /\ table = None
    /\ trail = << >>
    /\ disk = None
    /\ fetch = Idle
    /\ mem = None
    /\ pool = None
    /\ \E mf \in [Range(ExperimentBenchmarks) -> MaxFidelities], cumulated \in BOOLEAN :
       \E c \in [Range(ExperimentBenchmarks) -> UNION {[1..n -> 1..3] : n \in 1..MaxAxisLen}] :
          exp = Some([name |-> "group",
                      algorithms |-> ExperimentAlgorithms,
                      benchmarks |-> ExperimentBenchmarks,
                      benchmark_configs |->
                          [b \in Range(ExperimentBenchmarks) |-> [max_fidelity |-> mf[b]]],
                      results |->
                          [b \in Range(ExperimentBenchmarks) |->
                              [a \in Range(ExperimentAlgorithms) |->
                                  [s \in 0..MaxSeed |->
                                      AxisTrace(
                                          [i \in DOMAIN c[b] |->
                                              CHOOSE l \in FidelityLevels(mf[b]) :
                                                  Cardinality({k \in FidelityLevels(mf[b]) : k < l})
                                                      = c[b][i] - 1],
                                          cumulated)]]]])

\* ExperimentResults.rescale_xaxis(xaxis, by="max_fidelity")
ExperimentRescaleXAxis ==
    /\ exp # None
    /\ trail = << >>
    /\ \E x \in XAxes :
          LET made == Call("ExperimentResults.rescale_xaxis", [NoArgs EXCEPT !.xaxis = x])
              r == experiment_transform("rescale_xaxis", made, exp[1])
          IN  /\ call' = made
              /\ exp' = r.value
              /\ err' = r.err
              /\ trail' = << [call |-> made, input |-> exp[1]] >>
    /\ UNCHANGED << input, ret, bench, table, disk, fetch, mem, pool >>

RescaleNext == RescaleXAxis \/ ExperimentRescaleXAxis

RescaleSpec == (RescaleInit \/ ExperimentInit) /\ [][RescaleNext]_vars

\* ------------------------------------------------------------ fetch_results
\* (mutant) the incumbents are taken before the fidelities are cumulated
StagesIncumbentsFirst ==
    << "continuations", "incumbents_only", "cumulate_fidelities", "rescale" >>

\* the optional stages in the order of their if statements, each named by
\* the flag that enables it
Stages == << "continuations", "cumulate_fidelities", "incumbents_only", "rescale" >>

\* what fetch_results does next after the step `pc`: the first enabled stage
\* that follows it, or the collect step
next_stage(pc, args) ==
    LET at == IF pc = "load" THEN 0 ELSE CHOOSE i \in DOMAIN Stages : Stages[i] = pc
        later == {i \in DOMAIN Stages : i > at /\ args[Stages[i]]}
    IN  IF later = {} THEN "collect" ELSE Stages[SetMin(later)]

\* the call a stage makes on experiment_results
stage_method(stage) ==
    CASE stage = "continuations" -> "with_continuations"
      [] stage = "cumulate_fidelities" -> "with_cumulative_fidelity"
      [] stage = "incumbents_only" -> "incumbent_trace"
      [] stage = "rescale" -> "rescale_xaxis"

\* the arguments fetch_results passes on to it
stage_args(stage, args) ==
    CASE stage = "continuations" -> NoArgs
      [] stage = "cumulate_fidelities" -> [NoArgs EXCEPT !.n_workers = Some(args.n_workers)]
      [] stage = "incumbents_only" -> [NoArgs EXCEPT !.xaxis = args.xaxis, !.yaxis = "loss"]
      [] stage = "rescale" -> [NoArgs EXCEPT !.xaxis = args.xaxis]

run_stage(stage, args, experiment_results) ==
    experiment_transform(stage_method(stage), stage_args(stage, args), experiment_results)

\* the results directory: every seed directory holds the same Format A run
\* of one configuration evaluated at two brackets, but for the one of the
\* last benchmark and algorithm, which is `odd`
GoodUnit ==
    [kind |-> "neps",
     configs |-> << [name |-> << 0, 1 >>, loss |-> 0, fidelity |-> 2 * One,
                     end_time |-> 2 * One, process_id |-> None],
                    [name |-> << 0, 0 >>, loss |-> 1, fidelity |-> One,
                     end_time |-> One, process_id |-> None] >>,
     ids |-> << >>, lines |-> << >>]

Missing == [kind |-> "missing", configs |-> << >>, ids |-> << >>, lines |-> << >>]

OddUnits ==
    {GoodUnit,
     Missing,
     [kind |-> "nosentinel", configs |-> << >>, ids |-> << >>, lines |-> << >>],
     [kind |-> "neps", configs |-> << >>, ids |-> << >>, lines |-> << >>],
     [kind |-> "hpbandster", configs |-> << >>, ids |-> << 7, 9 >>, lines |-> << >>],
     [kind |-> "hpbandster", configs |-> << >>, ids |-> << 7, 9 >>,
      lines |-> << [id |-> 9, budget |-> 2 * One, finished |-> One, loss |-> 1],
                   [id |-> 7, budget |-> One, finished |-> 2 * One, loss |-> 0] >>]}

DiskBenchmarks == << "b1", "b2" >>

DiskAlgorithms == << "random_search", "hb" >>

\* random_search was evaluated on the first benchmark unless ~evaluated
Disk(odd, config, evaluated) ==
    [units |-> [u \in Range(DiskBenchmarks) \X Range(DiskAlgorithms) \X (0..MaxDiskSeed) |->
                   IF u = << "b2", "hb", 0 >> THEN odd
                   ELSE IF ~evaluated /\ u[1] = "b1" /\ u[2] = "random_search" THEN Missing
                   ELSE GoodUnit],
     configs |-> [b \in Range(DiskBenchmarks) |->
                     IF b = "b2" THEN config
                     ELSE Some([max_fidelity |-> 2])],
     cache |-> None]

\* the arguments of a fetch_results call (parallel left out: see the pool)
FetchArgs ==
    [benchmarks : {<< "b1" >>, << "b1", "b2" >>},
     algorithms : {DiskAlgorithms},
     n_workers : {1},
     xaxis : {"cumulated_fidelity"},
     continuations : BOOLEAN,
     cumulate_fidelities : BOOLEAN,
     incumbents_only : BOOLEAN,
     rescale : BOOLEAN,
     use_cache : BOOLEAN,
     collect : BOOLEAN]

\* nothing fetched yet
FetchInit ==
    /\ input = << >>
    /\ call = Call("load", NoArgs)
    /\ ret = None
    /\ err = ""
    /\ bench = None
    /\ table = None
    /\ trail = << >>
    /\ exp = None
    /\ \E odd \in OddUnits, config \in {None, Some([max_fidelity |-> 4])},
          evaluated \in BOOLEAN :
          /\ odd = GoodUnit \/ (config # None /\ evaluated)
          /\ config # None \/ evaluated
          /\ disk = Disk(odd, config, evaluated)
    /\ fetch = Idle
    /\ mem = None
    /\ pool = None

\* fetch_results is called
FetchResults ==
    /\ fetch.pc \in {"idle", "done", "raised"}
    /\ fetch.calls < MaxFetches
    /\ \E args \in FetchArgs :
          fetch' = [pc |-> "cache", calls |-> fetch.calls + 1, args |-> args,
                    log |-> << >>, seeds |-> << >>, loaded |-> None]
    /\ exp' = None
    /\ err' = ""
    /\ UNCHANGED << input, call, ret, bench, table, trail, disk, mem, pool >>

\* lines 49-54: the cache is returned if asked for and there
CacheLookup ==
    /\ fetch.pc = "cache"
    /\ IF fetch.args.use_cache /\ disk.cache # None
       THEN /\ exp' = disk.cache
            /\ fetch' = [fetch EXCEPT !.pc = "done"]
       ELSE /\ exp' = exp
            /\ fetch' = [fetch EXCEPT !.pc = "load"]
    /\ UNCHANGED << input, call, ret, err, bench, table, trail, disk, mem, pool >>

\* the seeds list in some order of the directory listing
SeedLists(S) ==
    {l \in [1..Cardinality(S) -> S] : \A i, j \in DOMAIN l : i # j => l[i] # l[j]}

\* a step of fetch_results that returned or raised r, having listed seeds
Step(r, stage, seeds) ==
    /\ exp' = r.value
    /\ err' = r.err
    /\ fetch' = IF r.err # "" THEN [fetch EXCEPT !.pc = "raised", !.seeds = seeds]
                 ELSE [fetch EXCEPT !.pc = next_stage(stage, fetch.args),
                                    !.log = Append(fetch.log, stage),
                                    !.seeds = seeds,
                                    !.loaded = IF stage = "load" THEN r.value
                                               ELSE fetch.loaded]
    /\ UNCHANGED << input, call, ret, bench, table, trail, disk, mem, pool >>

\* lines 61-68: ExperimentResults.load
Load ==
    /\ fetch.pc = "load"
    /\ IF seed_dirs(fetch.args.benchmarks, disk) = {}
       THEN /\ exp' = None
            /\ err' = "ValueError: seed count"
            /\ fetch' = [fetch EXCEPT !.pc = "raised"]
            /\ UNCHANGED << input, call, ret, bench, table, trail, disk, mem, pool >>
       ELSE \E seeds \in SeedLists(seed_dirs(fetch.args.benchmarks, disk)) :
               Step(experiment_load("group", fetch.args.benchmarks,
                                    fetch.args.algorithms, seeds, disk), "load", seeds)

Continuations ==
    /\ fetch.pc = "continuations"
    /\ Step(run_stage("continuations", fetch.args, exp[1]), "continuations", fetch.seeds)

CumulateFidelities ==
    /\ fetch.pc = "cumulate_fidelities"
    /\ Step(run_stage("cumulate_fidelities", fetch.args, exp[1]), "cumulate_fidelities", fetch.seeds)

IncumbentsOnly ==
    /\ fetch.pc = "incumbents_only"
    /\ Step(run_stage("incumbents_only", fetch.args, exp[1]), "incumbents_only", fetch.seeds)

Rescale ==
    /\ fetch.pc = "rescale"
    /\ Step(run_stage("rescale", fetch.args, exp[1]), "rescale", fetch.seeds)

\* lines 91-95: the result is pickled if asked for, and returned
Collect ==
    /\ fetch.pc = "collect"
    /\ disk' = IF fetch.args.collect THEN [disk EXCEPT !.cache = exp] ELSE disk
    /\ fetch' = [fetch EXCEPT !.pc = "done"]
    /\ UNCHANGED << input, call, ret, err, bench, table, trail, exp, mem, pool >>

FetchNext ==
    \/ FetchResults
    \/ CacheLookup
    \/ Load
    \/ Continuations
    \/ CumulateFidelities
    \/ IncumbentsOnly
    \/ Rescale
    \/ Collect

FetchSpec == FetchInit /\ [][FetchNext]_vars

\* ------------------------------------------------------- objects in memory
\* Where it matters which object a reference leads to, the objects are kept
\* in mem.objs and named by their position there.  A Result object is the
\* record of its fields, continued_from holding a reference; a Trace object
\* holds the list of references to its results; a collection object holds
\* its class and the dict of references to its children.
ResultObject(fields) == [kind |-> "Result"] @@ fields

TraceObject(results) == [kind |-> "Trace", results |-> results]

CollectionObject(class, children) ==
    [kind |-> "Collection", class |-> class, children |-> children]

\* what a call leaves: the objects there are now and the object it returned
Made(objs, ref) == [err |-> "", objs |-> objs, ref |-> ref]

Raised(objs, e) == [err |-> e, objs |-> objs, ref |-> 0]

\* the results of a trace, each with the reference it was read through
Tagged(objs, refs) == [i \in DOMAIN refs |-> [ref |-> refs[i]] @@ objs[refs[i]]]

Untagged(r) == [f \in DOMAIN r \ {"ref"} |-> r[f]]

\* replace(self, results=results) of a Trace
new_trace(objs, results) == Made(Append(objs, TraceObject(results)), Len(objs) + 1)

\* in_range and incumbent_trace: a new list of results of the trace
kept(objs, r) ==
    IF r.err # "" THEN Raised(objs, r.err)
    ELSE new_trace(objs, [i \in DOMAIN r.results |-> r.results[i].ref])

\* with_cumulative_fidelity: every result of the new trace made by mutate
mutated(objs, r) ==
    IF r.err # "" THEN Raised(objs, r.err)
    ELSE new_trace(objs \o [i \in DOMAIN r.results |-> Untagged(r.results[i])],
                   [i \in DOMAIN r.results |-> Len(objs) + i])

\* with_continuations: the first result of every group as it is, the others
\* made by continue_from, which refer to the result they continue
continued(objs, tagged, r) ==
    IF r.err # "" THEN Raised(objs, r.err)
    ELSE LET made == SelectSeq(r.results, LAMBDA x : x \notin Range(tagged))
             nth(i) == Len(SelectSeq(SubSeq(r.results, 1, i),
                                     LAMBDA x : x \notin Range(tagged)))
         IN  new_trace(
                 objs \o [i \in DOMAIN made |->
                             [Untagged(made[i]) EXCEPT
                                 !.continued_from = Some(made[i].continued_from[1].ref)]],
                 [i \in DOMAIN r.results |->
                     IF r.results[i] \in Range(tagged) THEN r.results[i].ref
                     ELSE Len(objs) + nth(i)])

\* (mutant) the result itself is taken for its copy
replace_result_aliasing(objs, ref) == [objs |-> objs, ref |-> ref]

\* copied = replace(result): a new object with the same fields
replace_result(objs, ref) == [objs |-> Append(objs, objs[ref]), ref |-> Len(objs) + 1]

\* setattr(copied, xaxis, value)
heap_setattr(objs, ref, xaxis, value) ==
    [objs EXCEPT ![ref] = Setattr(objs[ref], xaxis, value)]

\* the loop of Trace.rescale_xaxis from the i-th result on
RECURSIVE rescale_loop(_, _, _, _, _, _)
rescale_loop(objs, refs, i, c, xaxis, results) ==
    IF i > Len(refs) THEN [err |-> "", objs |-> objs, results |-> results]
    ELSE LET copied == replace_result(objs, refs[i])
             value == Getattr(objs[refs[i]], xaxis)
         IN  IF value = None
             THEN [err |-> "TypeError", objs |-> copied.objs, results |-> results]
             ELSE rescale_loop(heap_setattr(copied.objs, copied.ref, xaxis,
                                            float_mul(value[1], c)),
                               refs, i + 1, c, xaxis, Append(results, copied.ref))

sorted_copies(r, xaxis) ==
    IF r.err # "" THEN Raised(r.objs, r.err)
    ELSE new_trace(r.objs,
                   sorted(r.results, [i \in DOMAIN r.results |->
                                         Getattr(r.objs[r.results[i]], xaxis)[1]]))

\* a method of the Trace at t
heap_trace(objs, t, op, args) ==
    CASE op \in {"in_range", "incumbent_trace"} ->
             kept(objs, trace_transform(op, args, Tagged(objs, objs[t].results)))
      [] op = "with_cumulative_fidelity" ->
             mutated(objs, with_cumulative_fidelity(Tagged(objs, objs[t].results),
                                                    args.n_workers, "loss"))
      [] op = "with_continuations" ->
             continued(objs, Tagged(objs, objs[t].results),
                       with_continuations(Tagged(objs, objs[t].results)))
      [] op = "rescale_xaxis" ->
             sorted_copies(rescale_loop(objs, objs[t].results, 1, args.c, args.xaxis, << >>),
                           args.xaxis)

\* the name of the argument of select that a class filters its children by
selector(class) ==
    CASE class = "ExperimentResults" -> "benchmarks"
      [] class = "BenchmarkResults" -> "algorithms"
      [] class = "AlgorithmResults" -> "seeds"

\* the children a method of a collection goes through
selected(obj, op, args) ==
    IF op = "select" /\ args[selector(obj.class)] # None
    THEN IF obj.class = "AlgorithmResults" THEN args.seeds[1]
         ELSE DOMAIN obj.children \cap args[selector(obj.class)][1]
    ELSE DOMAIN obj.children

\* replace(self, results=...) of a collection, if no child raised
collected(obj, r) ==
    IF r.err # "" THEN Raised(r.objs, r.err)
    ELSE Made(Append(r.objs, [obj EXCEPT !.children = r.children]), Len(r.objs) + 1)

\* the dict of a collection filled key by key, each value what the method
\* returns for the child; select of an AlgorithmResults takes the traces as
\* they are
RECURSIVE heap_transform(_, _, _, _)
RECURSIVE heap_children(_, _, _, _, _, _)
heap_children(objs, obj, keys, op, args, children) ==
    IF keys = {} THEN [err |-> "", objs |-> objs, children |-> children]
    ELSE LET k == CHOOSE k \in keys : TRUE
         IN  IF k \notin DOMAIN obj.children
             THEN [err |-> "KeyError", objs |-> objs, children |-> children]
             ELSE IF op = "select" /\ obj.class = "AlgorithmResults"
             THEN heap_children(objs, obj, keys \ {k}, op, args,
                                (k :> obj.children[k]) @@ children)
             ELSE LET r == heap_transform(objs, obj.children[k], op, args)
                  IN  IF r.err # ""
                      THEN [err |-> r.err, objs |-> r.objs, children |-> children]
                      ELSE heap_children(r.objs, obj, keys \ {k}, op, args,
                                         (k :> r.ref) @@ children)

\* the method op of the object at ref
heap_transform(objs, ref, op, args) ==
    IF objs[ref].kind = "Trace" THEN heap_trace(objs, ref, op, args)
    ELSE collected(objs[ref],
                   heap_children(objs, objs[ref], selected(objs[ref], op, args),
                                 op, args, << >>))

\* a configuration evaluated at two brackets, or two configurations
HeapTraces ==
    {<< RawResult(0, Some(0), l[1], One, One, None),
        RawResult(i, Some(1), l[2], 2 * One, 2 * One, None) >> :
        i \in 0..MaxId, l \in (0..MaxLoss) \X (0..MaxLoss)}

\* an experiment of one benchmark and one algorithm run with two seeds has
\* been loaded
HeapInit ==
    /\ input = << >>
    /\ call = Call("load", NoArgs)
    /\ ret = None
    /\ err = ""
    /\ bench = None
    /\ table = None
    /\ trail = << >>
    /\ exp = None
    /\ disk = None
    /\ fetch = Idle
    /\ pool = None
    /\ \E t \in HeapTraces :
          mem = [objs |-> << ResultObject(t[1]), ResultObject(t[2]),
                             ResultObject(RawResult(0, None, 0, One, One, None)),
                             TraceObject(<< 1, 2 >>),
                             TraceObject(<< 3 >>),
                             CollectionObject("AlgorithmResults", (0 :> 4) @@ (1 :> 5)),
                             CollectionObject("BenchmarkResults", [a \in {"hb"} |-> 6]),
                             CollectionObject("ExperimentResults", [b \in {"b1"} |-> 7]) >>,
                 log |-> << >>]

\* the calls made on the objects
HeapCalls ==
    {Call("with_continuations", NoArgs),
     Call("with_cumulative_fidelity", NoArgs)}
    \cup {Call("incumbent_trace", [NoArgs EXCEPT !.xaxis = x, !.yaxis = "loss"]) :
            x \in XAxes}
    \cup {Call("in_range", [NoArgs EXCEPT !.xaxis = x, !.bounds = << One, One >>]) :
            x \in XAxes}
    \cup {Call("rescale_xaxis", [NoArgs EXCEPT !.xaxis = x, !.c = 2 * One]) :
            x \in XAxes}

Selections ==
    {[benchmarks |-> None, algorithms |-> None, seeds |-> None],
     [benchmarks |-> Some({"b1"}), algorithms |-> None, seeds |-> Some({1})],
     [benchmarks |-> None, algorithms |-> Some({}), seeds |-> None]}

\* what the call `made` on the object at ref leaves in memory
Remember(made, ref, r) ==
    /\ mem' = [objs |-> r.objs,
               log |-> Append(mem.log, [call |-> made, on |-> ref,
                                        err |-> r.err, ref |-> r.ref])]
    /\ UNCHANGED << input, call, ret, err, bench, table, trail, exp, disk, fetch, pool >>

\* a transformation is called on a Trace or a collection there is
Transform ==
    /\ Len(mem.log) < MaxHeapCalls
    /\ \E ref \in DOMAIN mem.objs, made \in HeapCalls :
          /\ mem.objs[ref].kind # "Result"
          /\ Remember(made, ref, heap_transform(mem.objs, ref, made.op, made))

\* select is called on a collection there is
Select ==
    /\ Len(mem.log) < MaxHeapCalls
    /\ \E ref \in DOMAIN mem.objs, selection \in Selections :
          /\ mem.objs[ref].kind = "Collection"
          /\ Remember(Call("select", selection), ref,
                      heap_transform(mem.objs, ref, "select", selection))

HeapNext == Transform \/ Select

HeapSpec == HeapInit /\ [][HeapNext]_vars

\* ----------------------------------------------------------- worker pool
\* A transform of the ExperimentResults goes through its benchmarks in turn;
\* the BenchmarkResults of each hands one task per algorithm to the pool,
\* tasks[i] for the i-th key.  The workers take up and finish the tasks in
\* any order; pool(...) returns when all are finished.
PoolTraces ==
    {<< RawResult(0, Some(0), 1, One, One, None),
        RawResult(0, Some(1), 0, 2 * One, 2 * One, None) >>,
     << RawResult(0, None, 0, One, 3 * One, None) >>}

\* (mutant) the results in the order the tasks finished
pool_results_as_completed(batch) ==
    [i \in DOMAIN batch.out |-> batch.out[batch.finished[i]]]

\* results_ = pool(...): the results in the order the tasks were handed in
pool_results(batch) == [i \in DOMAIN batch.out |-> batch.out[i]]

\* {k: v for k, v in zip(keys, results_)}
zipped(keys, results_) ==
    [k \in Range(keys) |-> results_[CHOOSE i \in DOMAIN keys : keys[i] = k].value[1]]

\* the arguments the benchmark b is called with
benchmark_args(b) ==
    IF pool.call.op = "rescale_xaxis"
    THEN [pool.call EXCEPT !.c = experiment_factor(exp[1], b)]
    ELSE pool.call

PoolInit ==
    /\ input = << >>
    /\ call = Call("load", NoArgs)
    /\ ret = None
    /\ err = ""
    /\ bench = None
    /\ table = None
    /\ trail = << >>
    /\ disk = None
    /\ fetch = Idle
    /\ mem = None
    /\ \E t \in [Range(DiskBenchmarks) \X Range(DiskAlgorithms) -> PoolTraces] :
          exp = Some([name |-> "group",
                      algorithms |-> DiskAlgorithms,
                      benchmarks |-> DiskBenchmarks,
                      benchmark_configs |->
                          [b \in Range(DiskBenchmarks) |->
                              [max_fidelity |-> IF b = "b1" THEN 2 ELSE 4]],
                      results |->
                          [b \in Range(DiskBenchmarks) |->
                              [a \in Range(DiskAlgorithms) |->
                                  [seed \in 0..MaxSeed |-> t[<< b, a >>]]]]])
    /\ pool = [pc |-> "idle"]

PoolCalls ==
    {Call("with_continuations", NoArgs),
     Call("with_cumulative_fidelity", NoArgs),
     Call("in_range", [NoArgs EXCEPT !.xaxis = "end_time", !.bounds = << One, 2 * One >>]),
     Call("rescale_xaxis", [NoArgs EXCEPT !.xaxis = "end_time"])}
    \cup {Call("incumbent_trace", [NoArgs EXCEPT !.xaxis = x, !.yaxis = "loss"]) :
            x \in XAxes}

PoolUnchanged ==
    UNCHANGED << input, call, ret, err, bench, table, trail, exp, disk, fetch, mem >>

\* a transform of the ExperimentResults is called with a pool
PoolCall ==
    /\ pool.pc = "idle"
    /\ \E made \in PoolCalls :
          pool' = [pc |-> "next", call |-> made, todo |-> exp[1].benchmarks,
                   results |-> << >>, batch |-> None, err |-> "", returned |-> None]
    /\ PoolUnchanged

\* the BenchmarkResults of the next benchmark hands its tasks to the pool
Dispatch ==
    /\ pool.pc = "next" /\ pool.todo # << >>
    /\ pool' = [pool EXCEPT
                   !.pc = "pool",
                   !.batch = Some([keys |-> exp[1].algorithms,
                                   status |-> [i \in DOMAIN exp[1].algorithms |-> "pending"],
                                   out |-> [i \in DOMAIN exp[1].algorithms |-> None],
                                   finished |-> << >>])]
    /\ PoolUnchanged

\* a worker takes up a task
Start ==
    /\ pool.pc = "pool"
    /\ \E i \in DOMAIN pool.batch[1].status :
          /\ pool.batch[1].status[i] = "pending"
          /\ pool' = [pool EXCEPT !.batch[1].status[i] = "running"]
    /\ PoolUnchanged

\* a worker finishes its task: the standalone function called on the child
Complete ==
    /\ pool.pc = "pool"
    /\ \E i \in DOMAIN pool.batch[1].status :
          /\ pool.batch[1].status[i] = "running"
          /\ pool' = [pool EXCEPT
                         !.batch[1].status[i] = "done",
                         !.batch[1].finished = Append(@, i),
                         !.batch[1].out[i] =
                             algorithm_transform(
                                 pool.call.op, benchmark_args(Head(pool.todo)),
                                 exp[1].results[Head(pool.todo)][pool.batch[1].keys[i]])]
    /\ PoolUnchanged

\* pool(...) returns the results or raises what a task raised, and the
\* BenchmarkResults zips them onto its keys
Gather ==
    /\ pool.pc = "pool"
    /\ \A i \in DOMAIN pool.batch[1].status : pool.batch[1].status[i] = "done"
    /\ IF \E i \in DOMAIN pool.batch[1].out : pool.batch[1].out[i].err # ""
       THEN \E i \in DOMAIN pool.batch[1].out :
               /\ pool.batch[1].out[i].err # ""
               /\ pool' = [pool EXCEPT !.pc = "raised", !.err = pool.batch[1].out[i].err]
       ELSE pool' = [pool EXCEPT
                        !.pc = "next",
                        !.todo = Tail(pool.todo),
                        !.results = (Head(pool.todo) :>
                                        zipped(pool.batch[1].keys,
                                               pool_results(pool.batch[1])))
                                    @@ pool.results]
    /\ PoolUnchanged

\* replace(self, results=results)
PoolReturn ==
    /\ pool.pc = "next" /\ pool.todo = << >>
    /\ pool' = [pool EXCEPT !.pc = "returned",
                            !.returned = Some([exp[1] EXCEPT !.results = pool.results])]
    /\ PoolUnchanged

PoolNext == PoolCall \/ Dispatch \/ Start \/ Complete \/ Gather \/ PoolReturn

PoolSpec == PoolInit /\ [][PoolNext]_vars

\* --------------------------------------- selecting and ranking an experiment
\* list(a_set): its elements once each, in the order the set yields them
list(S) == CHOOSE q \in [1..Cardinality(S) -> S] : Range(q) = S

\* AlgorithmResults.select(seeds): the traces of the seeds named; a seed the
\* collection lacks is a KeyError
algorithm_select(traces, seeds) ==
    IF seeds = None THEN Value(traces)
    ELSE IF \E s \in Range(seeds[1]) : s \notin DOMAIN traces THEN Fail("KeyError")
    ELSE Value([s \in Range(seeds[1]) |-> traces[s]])

\* BenchmarkResults.select(algorithms, seeds): the algorithms held that are
\* named, each with the seeds selected
benchmark_select(results, algorithms, seeds) ==
    children_of([a \in (IF algorithms = None THEN DOMAIN results
                        ELSE DOMAIN results \cap Range(algorithms[1])) |->
                    algorithm_select(results[a], seeds)])

\* (mutant) the configurations of all benchmarks are kept
selected_configs_all(benchmark_configs, benchmarks_set) == benchmark_configs

\* the benchmark configurations select() keeps
selected_configs(benchmark_configs, benchmarks_set) ==
    [b \in DOMAIN benchmark_configs \cap benchmarks_set |-> benchmark_configs[b]]

\* replace(self, benchmarks=list(benchmarks_set), algorithms=...,
\* results=..., benchmark_configs=...)
selection(self, benchmarks_set, algorithms, selected_results) ==
    IF selected_results.err # "" THEN selected_results
    ELSE Value([name |-> self.name,
                benchmarks |-> list(benchmarks_set),
                algorithms |-> IF algorithms = None THEN self.algorithms ELSE algorithms[1],
                results |-> selected_results.value[1],
                benchmark_configs |-> selected_configs(self.benchmark_configs,
                                                       benchmarks_set)])

\* the benchmarks held that are named, each selected from
selected_benchmarks(self, benchmarks_set, algorithms, seeds) ==
    children_of([b \in DOMAIN self.results \cap benchmarks_set |->
                    benchmark_select(self.results[b], algorithms, seeds)])

\* ExperimentResults.select(benchmarks, algorithms, seeds)
experiment_select(self, benchmarks, algorithms, seeds) ==
    selection(self,
              IF benchmarks = None THEN Range(self.benchmarks) ELSE Range(benchmarks[1]),
              algorithms,
              selected_benchmarks(
                  self,
                  IF benchmarks = None THEN Range(self.benchmarks) ELSE Range(benchmarks[1]),
                  algorithms, seeds))

\* ExperimentResults.seeds(): the seeds of any algorithm of any benchmark
experiment_seeds(self) ==
    UNION {UNION {DOMAIN self.results[b][a] : a \in DOMAIN self.results[b]} :
           b \in DOMAIN self.results}

\* ExperimentResults.indices(xaxis, sort=False): the xaxis values of the
\* records of all traces
experiment_indices(self, xaxis) ==
    UNION {UNION {UNION {{Getattr(r, xaxis)[1] : r \in Range(self.results[b][a][s])} :
                         s \in DOMAIN self.results[b][a]} :
                  a \in DOMAIN self.results[b]} :
           b \in DOMAIN self.results}

\* the sum of f over the keys S
RECURSIVE sum_of(_, _)
sum_of(f, S) ==
    IF S = {} THEN 0
    ELSE LET k == CHOOSE k \in S : TRUE
         IN  f[k] + sum_of(f, S \ {k})

\* the per-seed rank table of every (benchmark, seed) pair, the seeds and
\* indices those of the whole experiment
rank_tables(self, xaxis, yaxis, seeds, indices) ==
    [p \in Range(self.benchmarks) \X seeds |->
        IF p[1] \notin DOMAIN self.results
        THEN [err |-> "KeyError: benchmark", table |-> None]
        ELSE ranks(self.results[p[1]], xaxis, yaxis, p[2], Some(indices), TRUE)]

\* a cell of reduce(operator.add, tables) / len(tables): the sum of the
\* (doubled) ranks over twice the number of tables, missing if a table has
\* no such cell or no rank in it
mean_cell(tables, x, a) ==
    IF \E p \in DOMAIN tables :
          \/ x \notin DOMAIN tables[p]
          \/ a \notin DOMAIN tables[p][x]
          \/ tables[p][x][a] = None
    THEN None
    ELSE Some(<< sum_of([p \in DOMAIN tables |-> tables[p][x][a][1]], DOMAIN tables),
                 2 * Cardinality(DOMAIN tables) >>)

\* reduce(operator.add, ranks.values()) / len(ranks): rows and columns are
\* those of any table
means_of(tables) ==
    [x \in UNION {DOMAIN tables[p] : p \in DOMAIN tables} |->
        [a \in UNION {UNION {DOMAIN tables[p][y] : y \in DOMAIN tables[p]} :
                      p \in DOMAIN tables} |->
            mean_cell(tables, x, a)]]

\* (mutant) ddof=0: the squared deviations are averaged over all m ranks
sem_population(R, m) ==
    IF m < 1 THEN None
    ELSE Some(<< sum_of([p \in DOMAIN R |-> (m * R[p] - sum_of(R, DOMAIN R))
                                               * (m * R[p] - sum_of(R, DOMAIN R))],
                        DOMAIN R),
                 4 * m * m * m * m >>)

\* Series.sem() of the m (doubled) ranks R, squared, as numerator and
\* denominator: the squared deviations from the mean over m - 1, over m;
\* missing for fewer than two ranks
sem(R, m) ==
    IF m < 2 THEN None
    ELSE Some(<< sum_of([p \in DOMAIN R |-> (m * R[p] - sum_of(R, DOMAIN R))
                                               * (m * R[p] - sum_of(R, DOMAIN R))],
                        DOMAIN R),
                 4 * m * m * m * (m - 1) >>)

\* the ranks of algorithm a in row x of the tables that have one
ranks_present(tables, x, a) ==
    [p \in {q \in DOMAIN tables : tables[q][x][a] # None} |-> tables[p][x][a][1]]

\* a cell of pd.concat(rank_df[a] of every table, axis=1).sem(axis=1)
sem_cell(R) == sem(R, Cardinality(DOMAIN R))

\* the uncertainty table: per algorithm of the name list its column of every
\* table side by side, and of each row the standard error of the ranks
\* present
stds_of(tables, algorithms) ==
    [x \in UNION {DOMAIN tables[p] : p \in DOMAIN tables} |->
        [a \in Range(algorithms) |-> sem_cell(ranks_present(tables, x, a))]]

\* means and stds of the tables out[pair] returned; a ranks() that raised, no
\* table at all, or an algorithm of the name list that is no column of some
\* table ends it
ranked(out, algorithms) ==
    LET failed == {p \in DOMAIN out : out[p].err # ""}
    IN  IF failed # {}
        THEN [err |-> out[CHOOSE p \in failed : TRUE].err, value |-> None]
        ELSE IF DOMAIN out = {}
        THEN Fail("TypeError: reduce() of empty sequence")
        ELSE IF \E p \in DOMAIN out, a \in Range(algorithms) :
                  \E x \in DOMAIN out[p].table[1] : a \notin DOMAIN out[p].table[1][x]
        THEN Fail("KeyError: algorithm")
        ELSE Value([ranks |-> [p \in DOMAIN out |-> out[p].table[1]],
                    means |-> means_of([p \in DOMAIN out |-> out[p].table[1]]),
                    stds |-> stds_of([p \in DOMAIN out |-> out[p].table[1]], algorithms)])

\* the mapping f with its entries computed once, as a dictionary holds them
\* (a function expression is otherwise computed anew wherever it is applied)
dict(f) == IF f = f THEN f ELSE f

\* ExperimentResults.ranks(xaxis, yaxis)
experiment_ranks(self, xaxis, yaxis) ==
    ranked(dict(rank_tables(self, xaxis, yaxis, experiment_seeds(self),
                            experiment_indices(self, xaxis))),
           self.algorithms)

\* the traces of the experiments ranked: evaluated once at end time 1, once
\* at end time 2, and twice with the second evaluation the better
SelectTraces ==
    << RankTrace({1}, [t \in {1} |-> << 1, 0 >>]),
       RankTrace({2}, [t \in {2} |-> << 0, 1 >>]),
       RankTrace({1, 3}, [t \in {1, 3} |-> IF t = 1 THEN << 1, 0 >> ELSE << 0, 1 >>]) >>

MaxSelects == 2

\* an experiment of the benchmarks b1 and b2 and the algorithms A and B: as
\* ExperimentResults.load returns it, every algorithm with the seeds 0 and 1,
\* or put together of AlgorithmResults.load(path) of each algorithm's
\* directory, B's holding a seed=0 directory only
SelectInit ==
    /\ input = << >>
    /\ call = Call("load", NoArgs)
    /\ ret = None
    /\ err = ""
    /\ bench = None
    /\ table = None
    /\ trail = << >>
    /\ disk = None
    /\ fetch = Idle
    /\ mem = None
    /\ pool = None
    /\ \E v \in [Range(AlgorithmOrder) -> DOMAIN SelectTraces], shared \in BOOLEAN :
          exp = Some([name |-> "group",
                      algorithms |-> AlgorithmOrder,
                      benchmarks |-> ExperimentBenchmarks,
                      benchmark_configs |->
                          [b \in Range(ExperimentBenchmarks) |-> [max_fidelity |-> 4]],
                      results |->
                          [b \in Range(ExperimentBenchmarks) |->
                              [a \in Range(AlgorithmOrder) |->
                                  [s \in (IF a = "A" \/ shared THEN {0, 1} ELSE {0}) |->
                                      SelectTraces[IF b = "b1" /\ s = 0 THEN v[a]
                                                   ELSE IF b = "b1" THEN (v[a] % 3) + 1
                                                   ELSE IF a = "A" THEN 2
                                                   ELSE 3 - s]]]]])

BenchmarksArgs == {None, Some(<< "b1" >>), Some(<< "b2", "b3" >>)}

AlgorithmsArgs == {None, Some(<< "A" >>), Some(<< "B", "A", "C" >>)}

SeedsArgs == {None, Some(<< 0 >>), Some(<< 1 >>)}

SelectArgs(benchmarks, algorithms, seeds) ==
    [benchmarks |-> benchmarks, algorithms |-> algorithms, seeds |-> seeds] @@ NoArgs

\* experiment.select(...): the experiment held is the one returned; a call
\* that raised ends the run
ExperimentSelect ==
    /\ exp # None
    /\ err = ""
    /\ call.op # "ExperimentResults.ranks"
    /\ Len(trail) < MaxSelects
    /\ \E benchmarks \in BenchmarksArgs, algorithms \in AlgorithmsArgs, seeds \in SeedsArgs :
          LET made == Call("ExperimentResults.select",
                           SelectArgs(benchmarks, algorithms, seeds))
              r == experiment_select(exp[1], benchmarks, algorithms, seeds)
          IN  /\ call' = made
              /\ err' = r.err
              /\ exp' = IF r.err = "" THEN r.value ELSE exp
              /\ trail' = Append(trail, [call |-> made, input |-> exp[1]])
    /\ UNCHANGED << input, ret, bench, table, disk, fetch, mem, pool >>

\* experiment.ranks(xaxis, yaxis): the rank tables, their mean and their
\* standard error are kept; the run ends with it
ExperimentRanks ==
    /\ exp # None
    /\ err = ""
    /\ call.op # "ExperimentResults.ranks"
    /\ \E x \in XAxes, y \in YAxes :
          LET r == experiment_ranks(exp[1], x, y)
          IN  /\ call' = Call("ExperimentResults.ranks",
                              [NoArgs EXCEPT !.xaxis = x, !.yaxis = y])
              /\ err' = r.err
              /\ table' = r.value
    /\ UNCHANGED << input, ret, bench, trail, exp, disk, fetch, mem, pool >>

SelectNext == ExperimentSelect \/ ExperimentRanks

SelectSpec == SelectInit /\ [][SelectNext]_vars

\* ---------------------------------------------------------- loading a Trace
\* the config directories of a Format A run as iterdir() lists them: up to
\* MaxLen of them, of any id, bracket and end time
ConfigDirs ==
    {[name |-> name, loss |-> 0,
      fidelity |-> IF Len(name) = 2 THEN name[2] + 1 ELSE 1,
      end_time |-> t, process_id |-> None] :
        name \in {<< id >> : id \in 0..MaxId}
                    \cup {<< id, b >> : id \in 0..MaxId, b \in 0..MaxBracket},
        t \in 1..MaxTime}

\* the lines of the results log of a Format B run
LogLines ==
    [id : {7, 9}, budget : 1..MaxFid, finished : 1..MaxTime, loss : {0}]

\* the seed directories Trace.load is called on
SeedDirs ==
    {[kind |-> "neps", configs |-> c, ids |-> << >>, lines |-> << >>] :
        c \in UNION {[1..n -> ConfigDirs] : n \in 0..MaxLen}}
    \cup {[kind |-> "hpbandster", configs |-> << >>, ids |-> << 9, 7 >>, lines |-> l] :
             l \in UNION {[1..n -> LogLines] : n \in 0..MaxLen}}

\* a seed directory is on disk, no Trace loaded yet
LoadInit ==
    /\ input = << >>
    /\ call = Call("", NoArgs)
    /\ ret = None
    /\ err = ""
    /\ bench = None
    /\ table = None
    /\ trail = << >>
    /\ exp = None
    /\ disk \in {[units |-> [u \in {<< "b1", "hb", 0 >>} |-> d],
                  configs |-> [b \in {"b1"} |-> None],
                  cache |-> None] : d \in SeedDirs}
    /\ fetch = Idle
    /\ mem = None
    /\ pool = None

\* Trace.load(path) of the seed directory
TraceLoad ==
    /\ call.op = ""
    /\ LET r == trace_load(disk.units[<< "b1", "hb", 0 >>])
       IN  /\ call' = Call("load", NoArgs)
           /\ ret' = IF r.err = "" THEN Some(r.results) ELSE None
           /\ err' = r.err
    /\ UNCHANGED << input, bench, table, trail, exp, disk, fetch, mem, pool >>

\* with_continuations() of the Trace loaded
LoadedWithContinuations ==
    /\ call.op = "load"
    /\ WithContinuations

LoadNext == TraceLoad \/ LoadedWithContinuations

LoadSpec == LoadInit /\ [][LoadNext]_vars

\* -------------------------------------------------- plot: seeds in parallel
\* plot() of plot.py and plot_rank.py, for one benchmark and algorithm: one
\* _process_seed unit per seed directory, all sharing the results dictionary
\* of three lists.  A unit reads its seed, then appends to incumbents, to
\* costs and to max_costs, each append a call of its own on the shared list.
\* pool is [script, parallel, pc, results, joined]: pc[seed] is where the
\* unit of the seed stands; an entry of a list is the seed that produced it.
MaxPlotSeed == 2

PlotSeeds == 0..MaxPlotSeed

Scripts == {"plot.py", "plot_rank.py"}

PlotInit ==
    /\ input = << >>
    /\ call = Call("plot", NoArgs)
    /\ ret = None
    /\ err = ""
    /\ bench = None
    /\ table = None
    /\ trail = << >>
    /\ exp = None
    /\ disk = None
    /\ fetch = Idle
    /\ mem = None
    /\ \E script \in Scripts, parallel \in BOOLEAN :
          pool = [script |-> script,
                  parallel |-> parallel,
                  pc |-> [seed \in PlotSeeds |-> "start"],
                  results |-> [incumbents |-> << >>, costs |-> << >>, max_costs |-> << >>],
                  joined |-> FALSE]

\* the unit of the seed is over
Completed(seed) == pool.pc[seed] \in {"done", "failed"}

\* the unit of the seed may take a step: with args.parallel the units run
\* side by side, without it the list comprehension runs them in seed order
Runnable(seed) ==
    /\ pool # None /\ "script" \in DOMAIN pool
    /\ err = ""
    /\ pool.parallel \/ \A earlier \in PlotSeeds : earlier < seed => Completed(earlier)

PlotUnchanged == UNCHANGED << input, call, ret, bench, table, trail, exp, disk, fetch, mem >>

\* get_seed_info(...) and the incumbents and costs computed of it; an
\* exception ends the unit in plot_rank.py, which catches it, and the whole
\* plot() in plot.py
GetSeedInfo(seed) ==
    /\ Runnable(seed)
    /\ pool.pc[seed] = "start"
    /\ \/ /\ pool' = [pool EXCEPT !.pc[seed] = "read"]
          /\ err' = err
       \/ /\ pool.script = "plot_rank.py"
          /\ pool' = [pool EXCEPT !.pc[seed] = "failed"]
          /\ err' = err
       \/ /\ pool.script = "plot.py"
          /\ pool' = [pool EXCEPT !.pc[seed] = "raised"]
          /\ err' = "Exception"
    /\ PlotUnchanged

\* results["incumbents"].append(incumbent)
AppendIncumbents(seed) ==
    /\ Runnable(seed)
    /\ pool.pc[seed] = "read"
    /\ pool' = [pool EXCEPT !.pc[seed] = "incumbents",
                            !.results.incumbents = Append(@, seed)]
    /\ err' = err
    /\ PlotUnchanged

\* results["costs"].append(cost)
AppendCosts(seed) ==
    /\ Runnable(seed)
    /\ pool.pc[seed] = "incumbents"
    /\ pool' = [pool EXCEPT !.pc[seed] = "costs",
                            !.results.costs = Append(@, seed)]
    /\ err' = err
    /\ PlotUnchanged

\* results["max_costs"].append(max_cost)
AppendMaxCosts(seed) ==
    /\ Runnable(seed)
    /\ pool.pc[seed] = "costs"
    /\ pool' = [pool EXCEPT !.pc[seed] = "done",
                            !.results.max_costs = Append(@, seed)]
    /\ err' = err
    /\ PlotUnchanged

\* all units are over: plot() goes on to read the three lists
Join ==
    /\ pool # None /\ "script" \in DOMAIN pool
    /\ err = ""
    /\ ~pool.joined
    /\ \A seed \in PlotSeeds : Completed(seed)
    /\ pool' = [pool EXCEPT !.joined = TRUE]
    /\ err' = err
    /\ PlotUnchanged

PlotNext ==
    \/ \E seed \in PlotSeeds :
          \/ GetSeedInfo(seed)
          \/ AppendIncumbents(seed)
          \/ AppendCosts(seed)
          \/ AppendMaxCosts(seed)
    \/ Join

PlotSpec == PlotInit /\ [][PlotNext]_vars

\* ================================================================== claims
\* helpers of the statements below
NoContinuedFrom(results) == \A r \in Range(results) : r.continued_from = None

\* bracket index of a record, absent counted as 0
Rung(r) == IF r.bracket = None THEN 0 ELSE r.bracket[1]

\* number of occurrences of x in s
Count(s, x) == Cardinality({i \in DOMAIN s : s[i] = x})

SameBag(s, t) ==
    /\ Len(s) = Len(t)
    /\ \A x \in Range(s) \cup Range(t) : Count(s, x) = Count(t, x)

Called(op) == call.op = op

Returned(op) == call.op = op /\ err = "" /\ ret # None

\* C1: with_continuations on a trace without continuation references
\* completes and returns exactly as many records as it was given.
C1_StitchPreservesCount ==
    (Called("with_continuations") /\ NoContinuedFrom(input))
        => (err = "" /\ ret # None /\ Len(ret[1]) = Len(input))

C1_Witness ==
    /\ Returned("with_continuations")
    /\ NoContinuedFrom(input)
    /\ Len(input) = 3
    /\ Len(ret[1]) = 3
    /\ \E r \in Range(ret[1]) : r.continued_from # None
    /\ \E r \in Range(ret[1]) : r.continued_from = None

\* the input records of the same id as input[i] that come before it in
\* bracket order, ties in input order
Before(i) ==
    {j \in DOMAIN input :
        /\ input[j].id = input[i].id
        /\ \/ Rung(input[j]) < Rung(input[i])
           \/ (Rung(input[j]) = Rung(input[i]) /\ j < i)}

\* the one right before it
Lower(i) ==
    CHOOSE j \in Before(i) :
        \A k \in Before(i) :
            \/ Rung(input[k]) < Rung(input[j])
            \/ (Rung(input[k]) = Rung(input[j]) /\ k <= j)

\* what stitching is to output for input[i]
Stitched(i) ==
    IF Before(i) = {} THEN input[i]
    ELSE [input[i] EXCEPT
            !.fidelity = input[i].fidelity - input[Lower(i)].fidelity,
            !.cost = input[i].cost - input[Lower(i)].cost,
            !.continued_from = Some(input[Lower(i)])]

FidelityRisesWithBracket(id) ==
    \A a, b \in Range(input) :
        (a.id = id /\ b.id = id /\ Rung(a) <= Rung(b)) => a.fidelity <= b.fidelity

\* C2: the output of with_continuations holds, for every input record, the
\* record itself when it is the lowest-bracket one of its id, and otherwise
\* the record with fidelity and cost reduced by those of the input record
\* right below it and continued_from set to that record; the reduced
\* fidelity is >= 0 when fidelity does not fall as the bracket rises.
C2_StitchedDeltas ==
    Returned("with_continuations") =>
        /\ SameBag(ret[1], [i \in DOMAIN input |-> Stitched(i)])
        /\ NoContinuedFrom(input) =>
              \A r \in Range(ret[1]) :
                  (r.continued_from # None /\ FidelityRisesWithBracket(r.id))
                      => r.fidelity >= 0

\* a configuration stitched across three brackets, each delta taken from
\* the record right below
C2_Witness ==
    /\ Returned("with_continuations")
    /\ NoContinuedFrom(input)
    /\ Len(input) = 3
    /\ \E i, j \in DOMAIN input :
          /\ Before(i) # {} /\ Before(j) # {} /\ i # j
          /\ Lower(i) = j
          /\ input[i].fidelity # input[j].fidelity
          /\ Stitched(i) \in Range(ret[1])
          /\ Stitched(j) \in Range(ret[1])

\* C3 (as claimed): every continued_from of a stitched trace refers to a
\* record of the same id and a strictly lower bracket.
C3_ContinuedFromLowerBracket ==
    Returned("with_continuations") =>
        \A r \in Range(ret[1]) :
            r.continued_from # None =>
                /\ r.continued_from[1].id = r.id
                /\ Rung(r.continued_from[1]) < Rung(r)

\* C4 (as claimed): with_continuations on a trace holding a record whose
\* continued_from is set fails with the assertion and returns no trace.
C4_RestitchFails ==
    (Called("with_continuations") /\ ~NoContinuedFrom(input))
        => (err = "AssertionError: continued_from" /\ ret = None)

\* ---- cumulative fidelity
SingleWorkerCall ==
    /\ Called("with_cumulative_fidelity")
    /\ (call.n_workers = None \/ call.n_workers = Some(1))

MultiWorkerCall ==
    /\ Called("with_cumulative_fidelity")
    /\ call.n_workers # None
    /\ call.n_workers[1] > 1

\* sum of the fidelity fields of s[1..n]
RECURSIVE FidelitySum(_, _)
FidelitySum(s, n) == IF n = 0 THEN 0 ELSE FidelitySum(s, n - 1) + s[n].fidelity

WithoutCumulated(s) == [i \in DOMAIN s |-> [s[i] EXCEPT !.cumulated_fidelity = None]]

\* C5: single-worker with_cumulative_fidelity returns the input records in
\* end_time order (ties in input order), one per input record, every field
\* but cumulated_fidelity unchanged, the i-th cumulated_fidelity being the
\* sum of the fidelity fields of records 1..i of that order.
C5_SingleWorkerRunningSum ==
    (SingleWorkerCall /\ err = "") =>
        /\ ret # None
        /\ Len(ret[1]) = Len(input)
        /\ SameBag(WithoutCumulated(ret[1]), WithoutCumulated(input))
        /\ \A i, j \in DOMAIN ret[1] :
              i < j => ret[1][i].end_time <= ret[1][j].end_time
        /\ \A i \in DOMAIN ret[1] :
              ret[1][i].cumulated_fidelity = Some(FidelitySum(ret[1], i))

\* three records that were not in end_time order get their running sums
C5_Witness ==
    /\ SingleWorkerCall /\ err = "" /\ ret # None
    /\ Len(input) = 3
    /\ \E i \in 1..2 : input[i].end_time > input[i + 1].end_time
    /\ ret[1][3].cumulated_fidelity = Some(ret[1][1].fidelity + ret[1][2].fidelity
                                            + ret[1][3].fidelity)
    /\ ret[1][1].fidelity # ret[1][2].fidelity

NonDecreasingCumulated(s) ==
    \A i, j \in DOMAIN s :
        (i < j \/ s[i].end_time < s[j].end_time)
            => s[i].cumulated_fidelity[1] <= s[j].cumulated_fidelity[1]

\* C6 (as claimed): the output of every single-worker
\* with_cumulative_fidelity is non-decreasing in cumulated_fidelity.
C6_CumulatedNonDecreasing ==
    (SingleWorkerCall /\ err = "") => NonDecreasingCumulated(ret[1])

\* C6 (amended): the output of a single-worker with_cumulative_fidelity is
\* non-decreasing in cumulated_fidelity along end_time order whenever no
\* input record has a negative fidelity.
C6_CumulatedNonDecreasingIfNonNegative ==
    (SingleWorkerCall /\ err = "" /\ \A r \in Range(input) : r.fidelity >= 0)
        => NonDecreasingCumulated(ret[1])

\* a stitched trace with non-negative deltas, accumulated
C6_Witness ==
    /\ SingleWorkerCall /\ err = "" /\ ret # None
    /\ Len(input) = 3
    /\ \A r \in Range(input) : r.fidelity >= 0
    /\ \E r \in Range(input) : r.continued_from # None
    /\ ret[1][1].cumulated_fidelity[1] < ret[1][3].cumulated_fidelity[1]

\* the input records of the same process as input[i] that end no later than
\* it (ties in input order), itself included
SameProcessUpTo(i) ==
    {j \in DOMAIN input :
        /\ input[j].process_id = input[i].process_id
        /\ \/ input[j].end_time < input[i].end_time
           \/ (input[j].end_time = input[i].end_time /\ j <= i)}

RECURSIVE SumFidelityOver(_)
SumFidelityOver(J) ==
    IF J = {} THEN 0
    ELSE LET j == CHOOSE j \in J : TRUE
         IN  input[j].fidelity + SumFidelityOver(J \ {j})

\* the total its own process has consumed when input[i] ends
ProcessCumulated(i) == SumFidelityOver(SameProcessUpTo(i))

\* C7: multi-worker with_cumulative_fidelity accumulates fidelity per
\* process_id in end_time order and returns, for each distinct cumulated
\* value, one input record that has this value and the least loss among the
\* records that have it, in strictly increasing cumulated_fidelity.
C7_MultiWorkerDeduplicated ==
    (MultiWorkerCall /\ err = "") =>
        /\ ret # None
        /\ Len(ret[1]) = Cardinality({ProcessCumulated(i) : i \in DOMAIN input})
        /\ \A k, l \in DOMAIN ret[1] :
              k < l => ret[1][k].cumulated_fidelity[1] < ret[1][l].cumulated_fidelity[1]
        /\ \A k \in DOMAIN ret[1] :
              \E i \in DOMAIN input :
                 /\ ret[1][k] = [input[i] EXCEPT
                                    !.cumulated_fidelity = Some(ProcessCumulated(i))]
                 /\ \A j \in DOMAIN input :
                       ProcessCumulated(j) = ProcessCumulated(i)
                           => input[i].loss <= input[j].loss

\* two processes reach the same cumulated value and the later-listed record,
\* having the lower loss, is the one kept
C7_Witness ==
    /\ MultiWorkerCall /\ err = "" /\ ret # None
    /\ Len(input) = 3
    /\ Len(ret[1]) = 2
    /\ \E i, j \in DOMAIN input :
          /\ i < j
          /\ input[i].process_id # input[j].process_id
          /\ ProcessCumulated(i) = ProcessCumulated(j)
          /\ input[j].loss < input[i].loss
          /\ [input[j] EXCEPT !.cumulated_fidelity = Some(ProcessCumulated(j))]
                \in Range(ret[1])

\* C8 (as claimed): a worker count that is unspecified or <= 1 fails when the
\* records do not share one process_id; a worker count > 1 fails when a
\* record has no process_id; a failing call returns no trace.
C8_WorkerIdentifierErrors ==
    Called("with_cumulative_fidelity") =>
        /\ ( /\ (call.n_workers = None \/ call.n_workers[1] <= 1)
             /\ Cardinality({r.process_id : r \in Range(input)}) > 1 )
              => (err = "AssertionError: process_id" /\ ret = None)
        /\ ( /\ call.n_workers # None /\ call.n_workers[1] > 1
             /\ \E r \in Range(input) : r.process_id = None )
              => (err = "AssertionError: process_id" /\ ret = None)

\* ---- incumbent trace
\* the value of the xaxis chosen by the last call
X(r) == Getattr(r, call.xaxis)[1]

\* the input of the last call in xaxis order, ties in input order
ByXAxis == sorted(input, [i \in DOMAIN input |-> X(input[i])])

\* the positions of ByXAxis whose record is in the returned trace
Kept == {p \in DOMAIN ByXAxis : ByXAxis[p] \in Range(ret[1])}

\* the last kept position before p
LastKept(p) == CHOOSE q \in Kept : q < p /\ \A k \in Kept : k < p => k <= q

IncumbentCall ==
    /\ Called("incumbent_trace")
    /\ call.yaxis = "loss"
    /\ input # << >>
    /\ \A r \in Range(input) : Getattr(r, call.xaxis) # None

\* C10: incumbent_trace(xaxis, "loss") of a non-empty trace whose records
\* carry the xaxis returns the sub-sequence of the records in xaxis order
\* that holds the first record and each later record whose loss is strictly
\* below the loss of the last record kept before it; its xaxis values do
\* not decrease and its losses strictly decrease.
C10_IncumbentTrace ==
    IncumbentCall =>
        /\ err = "" /\ ret # None
        /\ ret[1] = SelectSeq(ByXAxis, LAMBDA r : r \in Range(ret[1]))
        /\ Len(ret[1]) = Cardinality(Kept)
        /\ 1 \in Kept
        /\ \A p \in 2..Len(ByXAxis) :
              p \in Kept <=> ByXAxis[p].loss < ByXAxis[LastKept(p)].loss
        /\ \A k, l \in DOMAIN ret[1] :
              k < l => (X(ret[1][k]) <= X(ret[1][l]) /\ ret[1][k].loss > ret[1][l].loss)

\* a trace that was not in xaxis order, one record dropped for not improving
\* on the incumbent and a later one kept
C10_Witness ==
    /\ IncumbentCall /\ err = "" /\ ret # None
    /\ Len(input) = 3
    /\ Len(ret[1]) = 2
    /\ input # ByXAxis
    /\ ByXAxis[2] \notin Range(ret[1])
    /\ ByXAxis[3] \in Range(ret[1])

\* ---- comparison metrics
\* the trace ranks() read for algorithm a
RankedTrace(a) == bench[1][a][call.seed]

\* the records of algorithm a up to row x of the table
UpTo(a, x) == {r \in Range(RankedTrace(a)) : X(r) <= x}

\* its best-so-far record by loss at row x: the earliest of the least loss
BestByLoss(a, x) ==
    CHOOSE r \in UpTo(a, x) :
        \A q \in UpTo(a, x) : r.loss < q.loss \/ (r.loss = q.loss /\ X(r) <= X(q))

RanksCall ==
    /\ Called("ranks")
    /\ \A a \in Algorithms :
          call.seed \in DOMAIN bench[1][a] /\ RankedTrace(a) # << >>

\* C9 (as claimed): a call that names a metric other than "loss" fails and
\* returns nothing, be it incumbent_trace, the multi-worker deduplication or
\* BenchmarkResults.ranks; none goes on with loss in its place.
C9_NonLossMetricFails ==
    /\ (Called("incumbent_trace") /\ call.yaxis # "loss")
          => (err = "NotImplementedError" /\ ret = None)
    /\ (MultiWorkerCall /\ call.yaxis # "loss")
          => (err \in {"AssertionError: not supported", "AssertionError: process_id"}
              /\ ret = None)
    /\ (Called("ranks") /\ call.yaxis # "loss")
          => (err # "" /\ table = None)

\* C9 (amended): incumbent_trace with a metric other than "loss" raises
\* NotImplementedError and the multi-worker deduplication fails its assertion
\* (the unsupported-metric one when every record has a process_id), neither
\* returning a trace; BenchmarkResults.ranks raises nothing for any yaxis: it
\* takes each algorithm's incumbents by loss and ranks the yaxis values of
\* those incumbents.
C9_NonLossMetricFailsExceptRanks ==
    /\ (Called("incumbent_trace") /\ call.yaxis # "loss")
          => (err = "NotImplementedError" /\ ret = None)
    /\ (MultiWorkerCall /\ call.yaxis # "loss")
          => /\ err \in {"AssertionError: not supported", "AssertionError: process_id"}
             /\ (\A r \in Range(input) : r.process_id # None)
                    => err = "AssertionError: not supported"
             /\ ret = None
    /\ RanksCall =>
          /\ err = "" /\ table # None
          /\ call.indices # None => \A x \in DOMAIN table[1] : \A a, b \in Algorithms :
                /\ table[1][x][a] = None <=> UpTo(a, x) = {}
                /\ (table[1][x][a] # None /\ table[1][x][b] # None) =>
                      (table[1][x][a][1] < table[1][x][b][1]
                          <=> BestByLoss(a, x)[call.yaxis] < BestByLoss(b, x)[call.yaxis])

\* ranks() asked for val_score returned a table; at some row an algorithm's
\* latest record is not its incumbent by loss and would tie with the other
\* algorithm in val_score, yet the algorithm is ranked behind it, by its
\* incumbent's val_score
C9_Witness ==
    /\ RanksCall /\ call.yaxis = "val_score" /\ err = "" /\ table # None
    /\ \E x \in DOMAIN table[1] : \E a, b \in Algorithms :
          /\ UpTo(a, x) # {} /\ UpTo(b, x) # {}
          /\ \E r \in UpTo(a, x) :
                /\ \A q \in UpTo(a, x) : X(q) <= X(r)
                /\ r # BestByLoss(a, x)
                /\ r.val_score = BestByLoss(b, x).val_score
                /\ BestByLoss(a, x).val_score > BestByLoss(b, x).val_score
          /\ table[1][x][a][1] > table[1][x][b][1]

\* ---- best-so-far
\* the input records at or before xaxis value v
InputUpTo(v) == {r \in Range(input) : X(r) <= v}

\* the positions of the returned trace at or before xaxis value v
ReturnedUpTo(v) == {k \in DOMAIN ret[1] : X(ret[1][k]) <= v}

\* C11: for every xaxis value v of a non-empty input whose records carry the
\* xaxis, the last record of incumbent_trace(xaxis, "loss") with xaxis <= v
\* has the least loss of all input records with xaxis <= v; the last record
\* of the result has the least loss of the whole input.
C11_BestSoFar ==
    IncumbentCall =>
        /\ err = "" /\ ret # None /\ ret[1] # << >>
        /\ \A r \in Range(input) :
              /\ ReturnedUpTo(X(r)) # {}
              /\ ret[1][SetMax(ReturnedUpTo(X(r)))].loss
                     = SetMin({q.loss : q \in InputUpTo(X(r))})
        /\ ret[1][Len(ret[1])].loss = SetMin({q.loss : q \in Range(input)})

\* the second record does not improve and the third does: between them the
\* step function stays on the first record, and steps down at the third
C11_Witness ==
    /\ IncumbentCall /\ err = "" /\ ret # None
    /\ Len(input) = 3
    /\ ByXAxis[1].loss <= ByXAxis[2].loss
    /\ ByXAxis[3].loss < ByXAxis[1].loss
    /\ ret[1] = << ByXAxis[1], ByXAxis[3] >>
    /\ X(ByXAxis[1]) < X(ByXAxis[2]) /\ X(ByXAxis[2]) < X(ByXAxis[3])
    /\ ReturnedUpTo(X(ByXAxis[2])) = {1}

\* ---- range filter
InRangeCall ==
    /\ Called("in_range")
    /\ \A r \in Range(input) : Getattr(r, call.xaxis) # None

Within(r) == call.bounds[1] <= X(r) /\ X(r) <= call.bounds[2]

\* C12: in_range((low, high), xaxis) on a trace whose records carry the
\* xaxis returns exactly the input records with low <= xaxis <= high, each
\* unchanged and as often as in the input, in ascending xaxis order (ties in
\* input order); that is the empty trace when no record qualifies.
C12_InRange ==
    InRangeCall =>
        /\ err = "" /\ ret # None
        /\ ret[1] = SelectSeq(ByXAxis, Within)
        /\ \A r \in Range(input) :
              Count(ret[1], r) = (IF Within(r) THEN Count(input, r) ELSE 0)
        /\ \A k, l \in DOMAIN ret[1] : k < l => X(ret[1][k]) <= X(ret[1][l])
        /\ (\A r \in Range(input) : ~Within(r)) => ret[1] = << >>

\* records on both bounds are kept, one outside is dropped, and the kept
\* ones come out in another order than they went in
C12_Witness ==
    /\ InRangeCall /\ err = "" /\ ret # None
    /\ Len(input) = 3
    /\ Len(ret[1]) = 2
    /\ X(ret[1][1]) = call.bounds[1]
    /\ X(ret[1][2]) = call.bounds[2]
    /\ \E i, j \in DOMAIN input : i < j /\ input[i] = ret[1][2] /\ input[j] = ret[1][1]

\* ---- rescaling
RescaleCall ==
    /\ Called("rescale_xaxis")
    /\ \A r \in Range(input) : Getattr(r, call.xaxis) # None

\* the record r with its xaxis value multiplied by c, nothing else changed
Rescaled(r, c) == Setattr(r, call.xaxis, float_mul(X(r), c))

AscendingX(s) == \A k, l \in DOMAIN s : k < l => X(s[k]) <= X(s[l])

\* before is rescaled into after by the factor c
RescaledTrace(before, after, c) ==
    /\ Len(after) = Len(before)
    /\ SameBag(after, [i \in DOMAIN before |-> Rescaled(before[i], c)])
    /\ AscendingX(after)

ExperimentRescaleCall == Called("ExperimentResults.rescale_xaxis") /\ err = ""

MaxFidelityOf(b) == trail[1].input.benchmark_configs[b].max_fidelity

\* C13: rescale_xaxis(c, xaxis) on a trace whose records carry the xaxis
\* returns one record per input record, its xaxis the input value times c
\* and nothing else changed, in ascending order of the new xaxis; a returning
\* ExperimentResults.rescale_xaxis rescales every trace of a benchmark so by
\* c = 1 / max_fidelity of that benchmark, which for max fidelity 100 takes
\* 100 to 1.0 and 25 to 0.25.
C13_Rescale ==
    /\ RescaleCall =>
          (err = "" /\ ret # None /\ RescaledTrace(input, ret[1], call.c))
    /\ ExperimentRescaleCall =>
          /\ exp # None
          /\ DOMAIN exp[1].results = DOMAIN trail[1].input.results
          /\ \A b \in DOMAIN exp[1].results :
                /\ DOMAIN exp[1].results[b] = DOMAIN trail[1].input.results[b]
                /\ \A a \in DOMAIN exp[1].results[b] :
                      /\ DOMAIN exp[1].results[b][a] = DOMAIN trail[1].input.results[b][a]
                      /\ \A s \in DOMAIN exp[1].results[b][a] :
                            LET before == trail[1].input.results[b][a][s]
                                after == exp[1].results[b][a][s]
                            IN  /\ RescaledTrace(before, after,
                                      float_truediv(One, MaxFidelityOf(b) * One))
                                /\ MaxFidelityOf(b) = 100 =>
                                      \A r \in Range(before) :
                                          \E q \in Range(after) :
                                              /\ q.id = r.id
                                              /\ X(r) = 100 * One => X(q) = One
                                              /\ X(r) = 25 * One => 4 * X(q) = One

\* two benchmarks of different max fidelity, each rescaled by its own: 100
\* and 25 of the one become 1.0 and 0.25, 4 of the other becomes 1.0
C13_Witness ==
    /\ ExperimentRescaleCall /\ exp # None
    /\ MaxFidelityOf("b1") = 100 /\ MaxFidelityOf("b2") = 4
    /\ \E a \in DOMAIN exp[1].results["b1"] : \E s \in DOMAIN exp[1].results["b1"][a] :
          /\ Len(exp[1].results["b1"][a][s]) = 2
          /\ X(trail[1].input.results["b1"][a][s][1]) = 100 * One
          /\ X(trail[1].input.results["b1"][a][s][2]) = 25 * One
          /\ 4 * X(exp[1].results["b1"][a][s][1]) = One
          /\ X(exp[1].results["b1"][a][s][2]) = One
          /\ X(trail[1].input.results["b2"][a][s][1]) = 4 * One
          /\ X(exp[1].results["b2"][a][s][1]) = One

\* ---- there and back
\* the last call undoes the call before it: same xaxis, factor 1 / c
RoundTripCall ==
    /\ Called("rescale_xaxis")
    /\ Len(trail) = 2
    /\ trail[1].call.xaxis = call.xaxis
    /\ trail[1].call.c # 0
    /\ call.c = float_truediv(One, trail[1].call.c)
    /\ \A r \in Range(trail[1].input) : Getattr(r, call.xaxis) # None

Original == trail[1].input

\* C14 (as claimed): rescaling by c and then by 1 / c returns the records
\* with their original axis values, the same multiset of records; so does
\* dividing the rescaled values by c.
C14_RoundTrip ==
    /\ RoundTripCall => (err = "" /\ ret # None /\ SameBag(ret[1], Original))
    /\ (RescaleCall /\ call.c # 0) =>
          \A r \in Range(input) :
              float_truediv(float_mul(X(r), call.c), call.c) = X(r)

PowerOfTwo(c) == c # 0 /\ OddPart(Abs(c)) = 1

\* a and b differ by at most the rounding of three operations
Close(a, b) == Abs(a - b) * Pow2(Precision) <= 4 * Abs(b)

\* C14 (amended): rescaling by c and then by 1 / c returns as many records,
\* every field but the axis unchanged and every axis value within the
\* rounding error of the float operations of its original; the values and so
\* the multiset of records are reproduced exactly when c is a power of two.
\* The same holds for dividing the rescaled values by c.
C14_RoundTripUpToRounding ==
    /\ RoundTripCall =>
          /\ err = "" /\ ret # None /\ Len(ret[1]) = Len(Original)
          /\ \A r \in Range(Original) :
                \E q \in Range(ret[1]) :
                    /\ Setattr(q, call.xaxis, X(r)) = r
                    /\ Close(X(q), X(r))
          /\ PowerOfTwo(trail[1].call.c) => SameBag(ret[1], Original)
    /\ (RescaleCall /\ call.c # 0) =>
          \A r \in Range(input) :
              /\ Close(float_truediv(float_mul(X(r), call.c), call.c), X(r))
              /\ PowerOfTwo(call.c) =>
                    float_truediv(float_mul(X(r), call.c), call.c) = X(r)

\* a round trip through 1 / 3 and its inverse that brings one value back
\* exactly and another one off by a rounding error
C14_Witness ==
    /\ RoundTripCall /\ err = "" /\ ret # None
    /\ ~PowerOfTwo(trail[1].call.c)
    /\ Len(Original) = 2
    /\ \E r \in Range(Original) : \E q \in Range(ret[1]) :
          q.id = r.id /\ X(q) = X(r)
    /\ \E r \in Range(Original) : \E q \in Range(ret[1]) :
          q.id = r.id /\ X(q) # X(r) /\ Close(X(q), X(r))

\* the steps of the pipeline in the order the specification gives them
PipelineOrder ==
    << "load", "continuations", "cumulate_fidelities", "incumbents_only", "rescale" >>

\* the steps a call with the arguments args is to take
EnabledSteps(args) ==
    LET enabled(step) == step = "load" \/ args[step]
    IN  SelectSeq(PipelineOrder, enabled)

\* a fetch_results call that loaded the raw data rather than the cache
Fetching == fetch.pc # "idle" /\ fetch.log # << >>

\* the steps completed are an initial part of the steps to take, and the
\* step at hand is the one that follows them
InOrder ==
    Fetching =>
        LET expected == EnabledSteps(fetch.args)
            done == Len(fetch.log)
        IN  /\ done <= Len(expected)
            /\ fetch.log = SubSeq(expected, 1, done)
            /\ fetch.pc \in Range(PipelineOrder) =>
                  done < Len(expected) /\ fetch.pc = expected[done + 1]
            /\ fetch.pc \in {"collect", "done"} => fetch.log = expected
            /\ fetch.pc = "raised" => done < Len(expected)

\* a stage that completes was handed the hierarchy held, which the step
\* before it returned, and leaves its own result; a stage that raises ends
\* the call
Consumes ==
    (fetch.pc \in Range(Stages) /\ fetch' # fetch) =>
        LET r == run_stage(fetch.pc, fetch.args, exp[1])
        IN  /\ exp' = r.value /\ err' = r.err
            /\ r.err = "" => fetch'.log = Append(fetch.log, fetch.pc)
            /\ r.err # "" => fetch'.log = fetch.log /\ fetch'.pc = "raised"

\* C15: at every point of a fetch_results call the steps completed so far are
\* an initial part of load, continuations, cumulative fidelity, incumbents,
\* rescaling with the disabled stages left out; the step taken next is the
\* one that follows them in that list, the call returns only when all of
\* them completed, and every stage is applied to the hierarchy the step
\* before it returned.
C15_StageOrder == []InOrder /\ [][Consumes]_vars

\* a call that returned with continuations and incumbents disabled: load,
\* cumulative fidelity and rescaling ran in this order and changed the
\* hierarchy
C15_Witness ==
    /\ fetch.pc = "done"
    /\ fetch.log = << "load", "cumulate_fidelities", "rescale" >>
    /\ fetch.args.benchmarks = << "b1", "b2" >>
    /\ exp # fetch.loaded
    /\ run_stage("rescale", fetch.args, fetch.loaded[1]).err # ""

\* the hierarchy the stages `steps` make of the hierarchy h, one handing its
\* result to the next
RECURSIVE Composed(_, _, _)
Composed(steps, args, h) ==
    IF steps = << >> THEN Value(h)
    ELSE LET r == run_stage(Head(steps), args, h)
         IN  IF r.err # "" THEN r ELSE Composed(Tail(steps), args, r.value[1])

\* what the call with the arguments args makes of the raw data when it does
\* not use the cache and lists the seeds as `seeds`
Uncached(args, seeds) ==
    LET loaded == experiment_load("group", args.benchmarks, args.algorithms, seeds, disk)
    IN  IF loaded.err # "" THEN loaded
        ELSE Composed(Tail(EnabledSteps(args)), args, loaded.value[1])

\* C16: a fetch_results call with use_cache = True that returns, returns the
\* hierarchy the same call makes of the raw data with use_cache = False.
C16_CacheTransparent ==
    (fetch.pc = "done" /\ fetch.args.use_cache) =>
        \E seeds \in SeedLists(seed_dirs(fetch.args.benchmarks, disk)) :
            Uncached(fetch.args, seeds) = Value(exp[1])

\* ExperimentResults.load was called and returned or raised
LoadCalled == fetch.pc # "idle" /\ fetch.seeds # << >>

\* the seed directory of the benchmark b, the algorithm a and the k-th seed listed
Unit(b, a, k) == disk.units[<< b, a, fetch.seeds[k] >>]

\* the requested triples, the seed given by its position in the list
RequestedUnits ==
    Range(fetch.args.benchmarks) \X Range(fetch.args.algorithms) \X DOMAIN fetch.seeds

\* C19: when loading one of the requested (benchmark, algorithm, seed) units
\* fails, ExperimentResults.load raises and no hierarchy is returned; a
\* hierarchy that is returned holds, for every requested benchmark and
\* algorithm, exactly one Trace per listed seed, the one loaded from the
\* directory of that triple.
C19_NoPartialFailure ==
    LoadCalled =>
        /\ (\E u \in RequestedUnits : trace_load(Unit(u[1], u[2], u[3])).err # "") =>
              /\ fetch.loaded = None /\ fetch.log = << >>
              /\ fetch.pc = "raised" /\ err # "" /\ exp = None
        /\ fetch.loaded # None =>
              LET results == fetch.loaded[1].results
              IN  /\ DOMAIN results = Range(fetch.args.benchmarks)
                  /\ \A b \in DOMAIN results :
                        /\ DOMAIN results[b] = Range(fetch.args.algorithms)
                        /\ \A a \in DOMAIN results[b] :
                              /\ DOMAIN results[b][a] = 0..(Len(fetch.seeds) - 1)
                              /\ \A k \in DOMAIN fetch.seeds :
                                    /\ trace_load(Unit(b, a, k)).err = ""
                                    /\ results[b][a][k - 1] = trace_load(Unit(b, a, k)).results

\* a load of two benchmarks in which one seed directory has neither sentinel
\* subdirectory and all the others load: the format error is raised
C19_Witness ==
    /\ LoadCalled /\ fetch.pc = "raised"
    /\ err = "ValueError: neither root directory"
    /\ Cardinality({u \in RequestedUnits : trace_load(Unit(u[1], u[2], u[3])).err # ""}) = 1
    /\ Cardinality(RequestedUnits) > 1

\* a seed directory of either format that holds no record
ZeroRecords(unit) ==
    \/ unit.kind = "neps" /\ unit.configs = << >>
    \/ unit.kind = "hpbandster" /\ unit.lines = << >>

\* C20: Trace.load of a seed directory that yields zero records, of Format A
\* with no config directories or of Format B with an empty results log,
\* raises and returns no Trace, and so the load that reads it returns none.
C20_ZeroRecordsFail ==
    LoadCalled =>
        \A u \in RequestedUnits :
            ZeroRecords(Unit(u[1], u[2], u[3])) =>
                /\ trace_load(Unit(u[1], u[2], u[3])).err # ""
                /\ fetch.loaded = None

\* every object there is stays as it is: a Result keeps its field values
\* and the reference it continues, a Trace the list of its results in their
\* order, a collection its dict
ObjectsKept ==
    \A ref \in DOMAIN mem.objs :
        ref \in DOMAIN mem'.objs /\ mem'.objs[ref] = mem.objs[ref]

\* C17: no call of with_continuations, with_cumulative_fidelity,
\* incumbent_trace, in_range, rescale_xaxis or select, on a Trace or on a
\* collection of any level, whether it returns or raises, changes an object
\* that was there before it: the hierarchy, traces and records passed in,
\* and the records they continue from, have the field values and the order
\* they had.
C17_NoMutation == [][ObjectsKept]_vars

\* with_continuations on the whole experiment and then rescale_xaxis on what
\* it returned: the new experiment shares the first record with the one
\* loaded, and the rescaled copy of the continued record still refers to it,
\* end_time as loaded
C17_Witness ==
    /\ mem # None /\ Len(mem.log) = 2
    /\ mem.log[1].call.op = "with_continuations"
    /\ mem.objs[mem.log[1].on] = CollectionObject("ExperimentResults", [b \in {"b1"} |-> 7])
    /\ mem.log[2].call.op = "rescale_xaxis" /\ mem.log[2].call.xaxis = "end_time"
    /\ mem.log[2].on = mem.log[1].ref
    /\ mem.log[2].err = ""
    /\ \E t \in DOMAIN mem.objs :
          /\ mem.objs[t].kind = "Trace" /\ t > 8 /\ 1 \in Range(mem.objs[t].results)
    /\ \E r \in DOMAIN mem.objs :
          /\ mem.objs[r].kind = "Result"
          /\ mem.objs[r].continued_from = Some(1)
          /\ mem.objs[r].end_time = 4 * One
          /\ mem.objs[1].end_time = One

\* the tasks of the batch at hand did not finish in the order handed in
OutOfOrder(batch) == \E i \in DOMAIN batch.finished : batch.finished[i] # i

\* C18: a transform dispatched to the pool, whatever the order in which its
\* tasks start and finish, gives every BenchmarkResults a mapping with the
\* keys of the input, each algorithm mapped to the transform of the input's
\* child under it; what the ExperimentResults returns is what the call
\* without a pool returns, and it raises only where that raises.
C18_PoolOrderIndependent ==
    /\ pool # None /\ pool.pc \notin {"idle"} =>
          \A b \in DOMAIN pool.results :
              /\ DOMAIN pool.results[b] = DOMAIN exp[1].results[b]
              /\ \A k \in DOMAIN pool.results[b] :
                    Value(pool.results[b][k]) =
                        algorithm_transform(pool.call.op, benchmark_args(b),
                                            exp[1].results[b][k])
              /\ Value(pool.results[b]) =
                    benchmark_transform(pool.call.op, benchmark_args(b), exp[1].results[b])
    /\ pool # None /\ pool.pc = "returned" =>
          Value(pool.returned[1]) = experiment_transform(pool.call.op, pool.call, exp[1])
    /\ pool # None /\ pool.pc = "raised" =>
          experiment_transform(pool.call.op, pool.call, exp[1]).err # ""

\* a call returned whose second batch finished its tasks last first, the two
\* algorithms of that benchmark having different traces
C18_Witness ==
    /\ pool # None /\ pool.pc = "returned"
    /\ pool.call.op = "with_continuations"
    /\ OutOfOrder(pool.batch[1])
    /\ exp[1].results["b2"]["random_search"] # exp[1].results["b2"]["hb"]
    /\ pool.returned[1].results["b2"]["random_search"]
          # pool.returned[1].results["b2"]["hb"]

\* C21: a hierarchy that ExperimentResults.load returns for the seed list S
\* has, for every benchmark and algorithm, exactly the seeds of S as keys,
\* and under the key s the Trace loaded from the directory seed=s.
C21_KeyedBySeed ==
    (LoadCalled /\ fetch.loaded # None) =>
        \A b \in Range(fetch.args.benchmarks), a \in Range(fetch.args.algorithms) :
            LET traces == fetch.loaded[1].results[b][a]
            IN  /\ DOMAIN traces = Range(fetch.seeds)
                /\ \A s \in Range(fetch.seeds) :
                      traces[s] = trace_load(disk.units[<< b, a, s >>]).results


\* ---- rank tables
\* the xaxis values of algorithm a's incumbent trace
IncumbentIndex(a) ==
    {X(r) : r \in {q \in Range(RankedTrace(a)) : q = BestByLoss(a, X(q))}}

\* the value of algorithm a at row x: that of its incumbent at the greatest
\* incumbent xaxis value at or before x
ValueAt(a, x) == BestByLoss(a, x)[call.yaxis]

\* twice the mean of the ranks that a and its ties occupy in row x, among the
\* algorithms with a value there
MeanRank(a, x) ==
    LET valued == {b \in Algorithms : UpTo(b, x) # {}}
    IN  2 * Cardinality({b \in valued : ValueAt(b, x) < ValueAt(a, x)})
          + Cardinality({b \in valued : ValueAt(b, x) = ValueAt(a, x)}) + 1

\* the table has a row for every incumbent xaxis value and every index given
RowsAligned ==
    DOMAIN table[1] = UNION {IncumbentIndex(a) : a \in Algorithms}
                         \cup (IF call.indices = None THEN {} ELSE call.indices[1])

\* every cell is the rank of the value filled forward in ascending row order
RowsRanked ==
    \A x \in DOMAIN table[1] : \A a \in Algorithms :
        table[1][x][a] = IF UpTo(a, x) = {} THEN None ELSE Some(MeanRank(a, x))

\* C23: the table BenchmarkResults.ranks returns has one row per xaxis value
\* of any algorithm's incumbent trace of the seed and per index given, in
\* ascending order; before ranking an algorithm's value at row x is that of
\* its incumbent at the greatest incumbent xaxis value at or before x, missing
\* if there is none; each row holds the ascending ranks of its values, ties
\* sharing the mean of the ranks they occupy and a missing value left missing.
C23_RankTable == RanksCall => (err = "" /\ table # None /\ RowsAligned /\ RowsRanked)

\* the same of the calls that give indices (an empty list too), as
\* ExperimentResults.ranks does
C23_RankTableGivenIndices ==
    (RanksCall /\ call.indices # None) =>
        (err = "" /\ table # None /\ RowsAligned /\ RowsRanked)

\* a table with a row taken from the indices alone, a row where one
\* algorithm has no value yet, and a row where an algorithm's value is
\* filled forward and ties with the other's
C23_Witness ==
    /\ RanksCall /\ call.indices # None /\ table # None
    /\ \E x \in DOMAIN table[1] : \A a \in Algorithms : table[1][x][a] = None
    /\ \E x \in DOMAIN table[1], a, b \in Algorithms :
          table[1][x][a] = Some(2) /\ table[1][x][b] = None
    /\ \E x \in DOMAIN table[1], a, b \in Algorithms :
          /\ a # b /\ x \notin IncumbentIndex(a) /\ x \in IncumbentIndex(b)
          /\ table[1][x][a] = Some(3) /\ table[1][x][b] = Some(3)

\* the sum of the (doubled) ranks of the algorithms S in a row
RECURSIVE RowTotal(_, _)
RowTotal(row, S) ==
    IF S = {} THEN 0
    ELSE LET a == CHOOSE a \in S : TRUE
         IN  row[a][1] + RowTotal(row, S \ {a})

\* the algorithms with a rank in row x
Ranked(x) == {a \in Algorithms : table[1][x][a] # None}

K == Cardinality(Algorithms)

\* C24 (as claimed): in a rank table over k algorithms every row's ranks
\* sum to k(k+1)/2.
C24_RowSum ==
    (Called("ranks") /\ table # None) =>
        \A x \in DOMAIN table[1] : RowTotal(table[1][x], Ranked(x)) = K * (K + 1)

\* C24 (amended): a row in which m of the k algorithms have a value (all k
\* once every algorithm has an incumbent at or before the row) has ranks
\* that sum to m(m+1)/2, the others staying missing; without ties among the
\* values its ranks are a permutation of 1..m, and algorithms with equal
\* values hold equal ranks, the mean of the ranks they occupy.
C24_RowSumOverValued ==
    (Called("ranks") /\ table # None) =>
        \A x \in DOMAIN table[1] :
            LET m == Cardinality(Ranked(x))
            IN  /\ RowTotal(table[1][x], Ranked(x)) = m * (m + 1)
                /\ (\A a \in Ranked(x) : table[1][x][a][1] % 2 = 0)
                       => {table[1][x][a][1] : a \in Ranked(x)} = {2 * i : i \in 1..m}
                /\ (RanksCall /\ call.indices # None) =>
                       /\ Ranked(x) = {a \in Algorithms : UpTo(a, x) # {}}
                       /\ \A a, b \in Ranked(x) :
                             /\ ValueAt(a, x) = ValueAt(b, x)
                                    <=> table[1][x][a] = table[1][x][b]
                             /\ (a # b /\ ValueAt(a, x) = ValueAt(b, x))
                                    => table[1][x][a] = Some(3)

\* a table with a row where both algorithms tie, a row where they do not
\* and a row where only one of them has a value
C24_Witness ==
    /\ RanksCall /\ call.indices # None /\ table # None
    /\ \E x \in DOMAIN table[1] : \A a \in Algorithms : table[1][x][a] = Some(3)
    /\ \E x \in DOMAIN table[1] :
          {table[1][x][a] : a \in Algorithms} = {Some(2), Some(4)}
    /\ \E x \in DOMAIN table[1] : Cardinality(Ranked(x)) = 1

\* ---- selections
\* the experiment the select calls started from
Loaded == IF trail = << >> THEN exp[1] ELSE trail[1].input

\* C22: after any sequence of ExperimentResults.select calls on a loaded
\* experiment, the raised ones leaving it as it was, results and
\* benchmark_configs have the same benchmarks as keys, and every benchmark,
\* algorithm and seed retained is one of the loaded experiment and maps to
\* the trace it maps to there.
C22_SelectKeepsHierarchy ==
    (exp # None /\ Len(trail) > 0 /\ trail[1].call.op = "ExperimentResults.select") =>
        /\ DOMAIN exp[1].results = DOMAIN exp[1].benchmark_configs
        /\ \A b \in DOMAIN exp[1].results :
              /\ b \in DOMAIN Loaded.results
              /\ exp[1].benchmark_configs[b] = Loaded.benchmark_configs[b]
              /\ \A a \in DOMAIN exp[1].results[b] :
                    /\ a \in DOMAIN Loaded.results[b]
                    /\ \A s \in DOMAIN exp[1].results[b][a] :
                          /\ s \in DOMAIN Loaded.results[b][a]
                          /\ exp[1].results[b][a][s] = Loaded.results[b][a][s]

\* two selects returned: the first kept one benchmark of the two, the second
\* one algorithm and one seed of it
C22_Witness ==
    /\ exp # None /\ Len(trail) = 2 /\ err = ""
    /\ call.op = "ExperimentResults.select"
    /\ trail[1].call.benchmarks = Some(<< "b1" >>)
    /\ DOMAIN exp[1].results = {"b1"}
    /\ DOMAIN exp[1].benchmark_configs = {"b1"}
    /\ DOMAIN exp[1].results["b1"] = {"A"}
    /\ DOMAIN exp[1].results["b1"]["A"] = {1}
    /\ DOMAIN Loaded.results = {"b1", "b2"}

\* C29: after ExperimentResults.load and after any sequence of select calls,
\* whatever names they are given, the benchmarks list holds exactly the keys
\* of results and the algorithms list exactly the algorithms of every
\* benchmark, and ExperimentResults.ranks, which goes through the two lists,
\* looks up no benchmark and no algorithm that the mappings lack.
C29_NameListsMatch ==
    exp # None =>
        /\ Range(exp[1].benchmarks) = DOMAIN exp[1].results
        /\ \A b \in DOMAIN exp[1].results :
              Range(exp[1].algorithms) = DOMAIN exp[1].results[b]
        /\ call.op = "ExperimentResults.ranks"
              => err \notin {"KeyError: benchmark", "KeyError: algorithm"}

\* the lists match on every experiment that was selected from with names it
\* holds only, and ranks() then looks up no absent name
C29_NameListsMatchIfHeld ==
    (exp # None /\ \A k \in DOMAIN trail :
                     /\ trail[k].call.benchmarks # None
                           => Range(trail[k].call.benchmarks[1])
                                 \subseteq DOMAIN trail[k].input.results
                     /\ trail[k].call.algorithms # None
                           => Range(trail[k].call.algorithms[1])
                                 \subseteq Range(trail[k].input.algorithms)) =>
        /\ Range(exp[1].benchmarks) = DOMAIN exp[1].results
        /\ \A b \in DOMAIN exp[1].results :
              Range(exp[1].algorithms) = DOMAIN exp[1].results[b]
        /\ call.op = "ExperimentResults.ranks"
              => err \notin {"KeyError: benchmark", "KeyError: algorithm"}

\* ranks() raised on a benchmark of the list that results lacks
C29_AbsentBenchmark ==
    /\ call.op = "ExperimentResults.ranks" /\ err = "KeyError: benchmark"
    /\ \E b \in Range(exp[1].benchmarks) : b \notin DOMAIN exp[1].results

\* ranks() raised on an algorithm of the list that the rank tables lack
C29_AbsentAlgorithm ==
    /\ call.op = "ExperimentResults.ranks" /\ err = "KeyError: algorithm"
    /\ \E a \in Range(exp[1].algorithms), b \in DOMAIN exp[1].results :
          a \notin DOMAIN exp[1].results[b]

\* ---- mean ranks
RanksOfExperiment == exp # None /\ call.op = "ExperimentResults.ranks"

\* benchmark, algorithm and seed of every trace of the experiment
Traces ==
    {u \in (DOMAIN exp[1].results) \X Range(AlgorithmOrder) \X (0..1) :
        /\ u[2] \in DOMAIN exp[1].results[u[1]]
        /\ u[3] \in DOMAIN exp[1].results[u[1]][u[2]]}

\* the (benchmark, seed) pairs: every benchmark with every seed that any
\* algorithm of any benchmark has
Pairs == Range(exp[1].benchmarks) \X {u[3] : u \in Traces}

\* the axis values of the records of all traces
Universe ==
    UNION {{Getattr(r, call.xaxis)[1] : r \in Range(exp[1].results[u[1]][u[2]][u[3]])} :
           u \in Traces}

\* the name lists are those of the mappings and there is a trace to rank
Rankable ==
    /\ RanksOfExperiment
    /\ Range(exp[1].benchmarks) = DOMAIN exp[1].results
    /\ \A b \in DOMAIN exp[1].results : Range(exp[1].algorithms) = DOMAIN exp[1].results[b]
    /\ Traces # {}

\* one table per pair, each with the rows of the universe, and the mean the
\* sum of the tables' ranks over their number (missing where a rank is)
MeanOfPairs ==
    /\ err = "" /\ table # None
    /\ DOMAIN table[1].ranks = Pairs
    /\ \A p \in Pairs : DOMAIN table[1].ranks[p] = Universe
    /\ DOMAIN table[1].means = Universe
    /\ \A x \in Universe :
          /\ DOMAIN table[1].means[x] = Range(exp[1].algorithms)
          /\ \A a \in Range(exp[1].algorithms) :
                IF \E p \in Pairs : table[1].ranks[p][x][a] = None
                THEN table[1].means[x][a] = None
                ELSE /\ table[1].means[x][a] # None
                     /\ table[1].means[x][a][1][1] * 2 * Cardinality(Pairs)
                           = table[1].means[x][a][1][2]
                               * sum_of([p \in Pairs |-> table[1].ranks[p][x][a][1]], Pairs)

\* C25: ExperimentResults.ranks ranks every pair of a benchmark of the
\* experiment and a seed that any algorithm of any benchmark has, the
\* algorithms not needing to share their seeds; every table has the axis
\* values of all traces as rows, and the mean table is the element-wise sum
\* of the tables divided by the number of pairs.
C25_MeanOfAllPairs == Rankable => MeanOfPairs

\* the same of the experiments whose algorithms all have the same seeds
C25_MeanOfAllPairsSharedSeeds ==
    (Rankable /\ \A u, v \in Traces : u[3] \in DOMAIN exp[1].results[v[1]][v[2]])
        => MeanOfPairs

\* four pairs ranked, a mean between two ranks among the cells
C25_Witness ==
    /\ Rankable /\ err = "" /\ table # None
    /\ Cardinality(Pairs) = 4
    /\ \E x \in Universe, a \in Range(exp[1].algorithms) :
          /\ table[1].means[x][a] # None
          /\ table[1].means[x][a][1][1] % 4 # 0
          /\ \E p, q \in Pairs : table[1].ranks[p][x][a] # table[1].ranks[q][x][a]

\* ---- uncertainty of the mean ranks
Ranked2 == Rankable /\ err = "" /\ table # None

\* the pairs whose table has a rank for algorithm a at row x
WithRank(x, a) == {p \in Pairs : table[1].ranks[p][x][a] # None}

\* the (doubled) ranks of algorithm a at row x over the pairs P
RanksOver(x, a, P) == [p \in P |-> table[1].ranks[p][x][a][1]]

\* cell is the squared standard error of the mean of the m doubled ranks R
\* halved: (m * sum of squares - square of sum) / (4 * m^2 * (m - 1))
IsSem(cell, R, m) ==
    /\ cell # None
    /\ cell[1][1] * 4 * m * m * (m - 1)
          = cell[1][2] * (m * sum_of([p \in DOMAIN R |-> R[p] * R[p]], DOMAIN R)
                            - sum_of(R, DOMAIN R) * sum_of(R, DOMAIN R))

\* the uncertainty table has the rows of the mean table and one column per
\* algorithm
SameShape ==
    /\ DOMAIN table[1].stds = DOMAIN table[1].means
    /\ \A x \in DOMAIN table[1].stds : DOMAIN table[1].stds[x] = Range(exp[1].algorithms)

\* C26 (as claimed): for every algorithm and axis value the uncertainty
\* table holds the standard error of the mean of the algorithm's ranks over
\* all n (benchmark, seed) pairs, the sample standard deviation (n - 1) over
\* the square root of n, in a table of the mean table's rows with one column
\* per algorithm.
C26_SemOverAllPairs ==
    Ranked2 =>
        /\ SameShape
        /\ \A x \in Universe, a \in Range(exp[1].algorithms) :
              IF WithRank(x, a) = Pairs /\ Cardinality(Pairs) >= 2
              THEN IsSem(table[1].stds[x][a], RanksOver(x, a, Pairs), Cardinality(Pairs))
              ELSE table[1].stds[x][a] = None

\* C26 (amended): for every algorithm and axis value the uncertainty table
\* holds the standard error of the mean of the algorithm's ranks over the m
\* pairs whose table has a rank for it there (all n pairs where the mean
\* rank is not missing): their sample standard deviation (m - 1) over the
\* square root of m, and missing if m < 2; the table has the rows of the
\* mean table and one column per algorithm.
C26_SemOverRankedPairs ==
    Ranked2 =>
        /\ SameShape
        /\ \A x \in Universe, a \in Range(exp[1].algorithms) :
              IF Cardinality(WithRank(x, a)) >= 2
              THEN IsSem(table[1].stds[x][a], RanksOver(x, a, WithRank(x, a)),
                         Cardinality(WithRank(x, a)))
              ELSE table[1].stds[x][a] = None

\* over four pairs: a cell with all four ranks and a standard error above
\* zero, a cell with the ranks of some pairs only and a standard error, and
\* a cell with fewer than two ranks
C26_Witness ==
    /\ Ranked2 /\ Cardinality(Pairs) = 4
    /\ \E x \in Universe, a \in Range(exp[1].algorithms) :
          /\ WithRank(x, a) = Pairs
          /\ table[1].stds[x][a] # None /\ table[1].stds[x][a][1][1] > 0
    /\ \E x \in Universe, a \in Range(exp[1].algorithms) :
          /\ Cardinality(WithRank(x, a)) \in {2, 3}
          /\ table[1].stds[x][a] # None /\ table[1].means[x][a] = None
    /\ \E x \in Universe, a \in Range(exp[1].algorithms) :
          /\ Cardinality(WithRank(x, a)) < 2
          /\ table[1].stds[x][a] = None

\* ---- order of a Trace
\* C27: the records of every Trace that Trace.load returns, of either raw
\* format, and of every Trace that with_continuations returns are in
\* non-decreasing end_time order, whatever the order of the directory
\* listing, of the log and of the records given.
C27_SortedByEndTime ==
    (ret # None /\ call.op \in {"load", "with_continuations"}) =>
        \A i, j \in DOMAIN ret[1] : i < j => ret[1][i].end_time <= ret[1][j].end_time

\* with_continuations returned a trace in which the records of one
\* configuration, continued, lie either side of another's in time, loaded of
\* a directory listed latest first
C27_Witness ==
    /\ call.op = "with_continuations" /\ ret # None
    /\ Len(ret[1]) = 3
    /\ ret[1][1].id = ret[1][3].id /\ ret[1][2].id # ret[1][1].id
    /\ ret[1][3].continued_from # None
    /\ LET unit == disk.units[<< "b1", "hb", 0 >>]
       IN  /\ unit.kind = "neps"
           /\ unit.configs[1].end_time > unit.configs[2].end_time
           /\ unit.configs[2].end_time > unit.configs[3].end_time

\* ---- budget of a configuration
StitchReturned == Called("with_continuations") /\ err = "" /\ ret # None

\* the sum of field over the records s[1..n] of configuration id
RECURSIVE BudgetSum(_, _, _, _)
BudgetSum(s, n, id, field) ==
    IF n = 0 THEN 0
    ELSE BudgetSum(s, n - 1, id, field) + (IF s[n].id = id THEN s[n][field] ELSE 0)

\* the input records of configuration id at its highest bracket
Highest(id) ==
    {r \in Range(input) :
        /\ r.id = id
        /\ \A q \in Range(input) : q.id = id => bracket(q) <= bracket(r)}

\* fidelity and cost of every configuration add up to those of its
\* highest-bracket record (of one of them, where several share the bracket)
BudgetKept ==
    \A id \in ConfigIds(input) : \E r \in Highest(id) :
        /\ BudgetSum(ret[1], Len(ret[1]), id, "fidelity") = r.fidelity
        /\ BudgetSum(ret[1], Len(ret[1]), id, "cost") = r.cost

\* every continued_from is an input record that is itself not continued
ContinuedFromInput ==
    \A r \in Range(ret[1]) :
        r.continued_from # None =>
            /\ r.continued_from[1] \in Range(input)
            /\ r.continued_from[1].continued_from = None

\* C30: for every trace and every id, the fidelity fields, and likewise the
\* cost fields, of the id's records in with_continuations(t) add up to the
\* fidelity (cost) of the id's highest-bracket record in t, and every
\* continued_from points to an un-stitched record of t, one whose own
\* continued_from is absent.
C30_BudgetConserved == StitchReturned => (BudgetKept /\ ContinuedFromInput)

\* the budget is conserved whatever the trace
C30_BudgetKept == StitchReturned => BudgetKept

\* the same of the traces that hold no continued record, as loaded
C30_BudgetConservedUnstitched ==
    (StitchReturned /\ \A r \in Range(input) : r.continued_from = None)
        => (BudgetKept /\ ContinuedFromInput)

\* a configuration of three records stitched, its fidelities adding up
C30_Stitched ==
    /\ StitchReturned /\ Len(input) = 3
    /\ \A r \in Range(input) : r.id = 0 /\ r.continued_from = None
    /\ \E r \in Range(ret[1]) : r.continued_from # None /\ r.fidelity > 0
    /\ Cardinality({r.fidelity : r \in Range(input)}) > 1

\* ---- seeds processed in parallel
\* plot() has all its units over and reads the lists
Joined == pool # None /\ "joined" \in DOMAIN pool /\ pool.joined

\* C28: when plot() processes the seeds in parallel, then once all units
\* are over, whatever their interleaving, the lists incumbents, costs and
\* max_costs are of equal length and at every position their entries were
\* produced by the same seed.
C28_ListsAligned ==
    (Joined /\ pool.parallel) =>
        /\ Len(pool.results.incumbents) = Len(pool.results.costs)
        /\ Len(pool.results.costs) = Len(pool.results.max_costs)
        /\ \A i \in DOMAIN pool.results.incumbents :
              /\ pool.results.incumbents[i] = pool.results.costs[i]
              /\ pool.results.costs[i] = pool.results.max_costs[i]

\* the lists are of equal length and hold one entry of every seed that was
\* read, in parallel too; run one after the other they are aligned
C28_ListsSameSeeds ==
    Joined =>
        /\ Len(pool.results.incumbents) = Len(pool.results.costs)
        /\ Len(pool.results.costs) = Len(pool.results.max_costs)
        /\ Range(pool.results.incumbents) = {s \in PlotSeeds : pool.pc[s] = "done"}
        /\ Range(pool.results.costs) = Range(pool.results.incumbents)
        /\ Range(pool.results.max_costs) = Range(pool.results.incumbents)
        /\ Len(pool.results.incumbents) = Cardinality(Range(pool.results.incumbents))
        /\ ~pool.parallel => /\ pool.results.incumbents = pool.results.costs
                             /\ pool.results.costs = pool.results.max_costs

\* in parallel, all seeds read: the incumbents of two seeds are in one
\* order and their costs in the other
C28_Crossed ==
    /\ Joined /\ pool.parallel
    /\ Len(pool.results.incumbents) = MaxPlotSeed + 1
    /\ pool.results.incumbents[1] = pool.results.costs[2]
    /\ pool.results.incumbents[2] = pool.results.costs[1]
====
